---- MODULE Spec2Model ----
(***************************************************************************)
(* Model of the kest scenario engine: the scenario test function, the      *)
(* action wrappers of the scenario runtime, the retry engine, the          *)
(* reverting stack and the recorder.                                       *)
(*                                                                         *)
(* One scenario is one sequential asynchronous computation.  Every await   *)
(* of the source is a separate step of the model: a thunk invocation or a  *)
(* revert callback is started in one step and settles (resolves or         *)
(* rejects) in a later one; the synchronous code between two awaits is one *)
(* step.  The scenario body is the caller's code: it awaits each action    *)
(* before starting the next one, lets the error of a failed action escape, *)
(* may raise an error of its own, or returns.                              *)
(***************************************************************************)
EXTENDS Integers, Sequences, FiniteSets, TLC

VARIABLES
    events,      \* Recorder.events, the recorded event log
    revertFns,   \* createReverting: the stack of revert callbacks
    revertFn,    \* local variable revertFn of revert()
    pc,          \* position of the scenario's test function
    cur,         \* the action call in progress (closure of the wrapper)
    calls,       \* number of action calls the body has made
    raised,      \* the error in flight (NoError when none)
    testErr,     \* testFn: local variable testErr
    thrown,      \* the error the test function rejected with
    lastError,   \* retryUntil: local variable lastError
    retries,     \* retryUntil: local variable retries
    now,         \* Date.now() - startedAtMs of the running retryUntil
    timeoutMs,   \* retryUntil: timeoutMs (deadline - startedAtMs)
    intervalMs,  \* retryUntil: intervalMs
    cluster,     \* names of the resources that exist in the cluster
    added,       \* history: the call of every callback passed to add(), in order
    callLog,     \* history: type, input and outcome of every action call
    preserveOnFailure, \* the environment: KEST_PRESERVE_ON_FAILURE is "1"
    returned,    \* what the callers of Recorder.getEvents() hold, in call order
    bddCalls,    \* history: the BDD annotation calls of the body, in call order
    gets,        \* history: what kubectl get did in each attempt of assertAbsence
    foreign,     \* history: the namespaces that others created in the cluster
    kubectls,    \* the Kubectl objects the scenario has, the first made by testFn
    heap,        \* concurrent scenarios: the Recorder and Reverting objects made
    scenarios,   \* concurrent scenarios: position and objects of each testFn
    consumed,    \* parseEvents: the events the loop has handled, in order
    state,       \* parseEvents: local variable state (report and current slots)
    roundTrip    \* a Duration, the string rendered from it, what that parses to

vars == <<events, revertFns, revertFn, pc, cur, calls, raised, testErr, thrown,
          lastError, retries, now, timeoutMs, intervalMs, cluster, added, callLog,
          preserveOnFailure, returned, bddCalls, gets, foreign, kubectls,
          heap, scenarios, consumed, state, roundTrip>>

----------------------------------------------------------------------------
(* Bounds of the model *)

MaxCalls == 2
MaxTimeout == 2
MaxSkips == 2

(* Inputs of the scenario body *)

Inputs == {"a", "b"}
Errors == {"E1", "E2"}
ActionTypes == {"mutate", "oneWayMutate", "query"}
InvalidDuration == "InvalidDuration"
Timed == "TimedOut"
(* the timeout option: a string parseDuration accepts, or one it rejects *)
Timeouts == {[valid |-> TRUE, ms |-> t] : t \in {0, MaxTimeout}}
                \cup {[valid |-> FALSE, ms |-> 0]}
Intervals == {1}
(* the time a thunk invocation takes, and the time a sleep oversleeps *)
FnTimes == {0, 1}
Jitters == {0, 1}
(* the error of a failed kubectl delete in a revert callback *)
RevertErrors == {"E3"}
(* the error of a failed expectation in the scenario body *)
BodyErrors == {"E0"}

NoError == "undefined"
NoRevert == [call |-> 0, input |-> "undefined", type |-> "none"]
NoCall == [type |-> "none", input |-> "undefined", call |-> 0]
(* what a thunk invocation rejects with: the error of a failed kubectl     *)
(* command, or undefined, thrown by the test callback a query action is    *)
(* given by the caller                                                     *)
Rejections == Errors \cup {NoError}
RetryInputs == {"a"}

----------------------------------------------------------------------------
(* Recorder *)

Event(kind, data, call, phase) ==
    [kind |-> kind, data |-> data, call |-> call, phase |-> phase]

RecordFirst(evs, kind, data, call, phase) ==
    <<Event(kind, data, call, phase)>> \o evs

Record(evs, kind, data, call, phase) ==
    Append(evs, Event(kind, data, call, phase))

(* describe(input) of the action definitions *)
Describe(type, input) ==
    CASE type = "mutate" -> <<"Apply", input>>
      [] type = "oneWayMutate" -> <<"Delete", input>>
      [] type = "assertApplyError" -> <<"Apply", input, "(expected error)">>
      [] type = "assertAbsence" -> <<"Assert that", input, "is absent">>
      [] type = "applyNamespace" -> <<"Apply", "Namespace", input>>
      [] OTHER -> <<"Get", input>>

(* the kubectl subcommand a thunk of the action runs first *)
Subcommand(type) ==
    CASE type \in {"mutate", "assertApplyError", "applyNamespace"} -> "apply"
      [] type = "oneWayMutate" -> "delete"
      [] OTHER -> "get"

AlwaysOkActionEndData(error) == [ok |-> TRUE, error |-> error]

NeverOkActionEndData(error) == [ok |-> FALSE, error |-> error]

ActionEndData(error) == [ok |-> error = NoError, error |-> error]

RecordActionStartOfRevertOnly(evs, type, input, call, phase) ==
    IF phase = "revert"
    THEN Record(evs, "ActionStart", [description |-> Describe(type, input)], call, phase)
    ELSE evs

RecordActionStart(evs, type, input, call, phase) ==
    Record(evs, "ActionStart", [description |-> Describe(type, input)], call, phase)

RecordActionEndUnlessRevertFailed(evs, error, call, phase) ==
    IF phase = "revert" /\ error # NoError
    THEN evs
    ELSE Record(evs, "ActionEnd", ActionEndData(error), call, phase)

RecordActionEnd(evs, error, call, phase) ==
    Record(evs, "ActionEnd", ActionEndData(error), call, phase)

(* RealKubectl.runKubectl up to the spawn, and after the process exited *)
RecordCommandRun(evs, subcommand, name, call, phase) ==
    Record(evs, "CommandRun", [cmd |-> "kubectl", args |-> <<subcommand, name>>],
           call, phase)

RecordCommandResultTwice(evs, exitCode, call, phase) ==
    Record(Record(evs, "CommandResult", [exitCode |-> exitCode], call, phase),
           "CommandResult", [exitCode |-> exitCode], call, phase)

RecordCommandResult(evs, exitCode, call, phase) ==
    Record(evs, "CommandResult", [exitCode |-> exitCode], call, phase)

----------------------------------------------------------------------------
(* Reverting stack *)

AddTwice(stack, fn) == Append(Append(stack, fn), fn)

AddReplacesTop(stack, fn) ==
    IF stack = <<>> THEN <<fn>> ELSE [stack EXCEPT ![Len(stack)] = fn]

Add(stack, fn) == Append(stack, fn)

Shift(stack) == [fn |-> Head(stack), rest |-> Tail(stack)]

Pop(stack) == [fn |-> stack[Len(stack)], rest |-> SubSeq(stack, 1, Len(stack) - 1)]

DropFailed(stack, fn) == stack

Restore(stack, fn) == IF fn # NoRevert THEN Append(stack, fn) ELSE stack

EndOnlyOnCleanExit(evs, error) ==
    IF error = NoError THEN Record(evs, "RevertingsEnd", <<>>, 0, "none") ELSE evs

RecordRevertingsEnd(evs, error) == Record(evs, "RevertingsEnd", <<>>, 0, "none")

----------------------------------------------------------------------------
(* Scenario runtime *)

EveryTypeRegisters(type) == TRUE

(* the actions whose definition has type "mutate" go through            *)
(* createMutateFn, which passes the revert they return to add()          *)
RegistersRevert(type) == type \in {"mutate", "assertApplyError", "applyNamespace"}

(* the revert an apply returns deletes the resource, and applyNamespace  *)
(* returns the revert of its apply; the revert an assertApplyError       *)
(* returns does nothing                                                   *)
EveryRevertDeletes(fn) == TRUE

Deletes(fn) == fn.type \in {"mutate", "applyNamespace"}

(* the catch clause around the scenario body in testFn *)
BodyErrorEscapes(error) == [pc |-> "rejected", testErr |-> error, thrown |-> error]

CatchBodyError(error) == [pc |-> "cleanup", testErr |-> error, thrown |-> NoError]

(* KubectlContext: the fields runKubectl turns into flags *)
Unset == "undefined"
ContextFields == {"namespace", "context", "kubeconfig"}
EmptyContext == [f \in ContextFields |-> Unset]

(* createKubectl: the client of the scenario, with the default context;   *)
(* made says how the object came about and from tells which object it was *)
(* extended from                                                          *)
RootKubectl == [ctx |-> EmptyContext, made |-> "testFn", from |-> 0]

(* the test functions that the runner runs at the same time, and a test  *)
(* function that has not been called yet                                  *)
ScenarioIds == {1, 2}
NotStarted == [pc |-> "idle", recorder |-> 0, reverting |-> 0, kubectl |-> 0,
               applied |-> 0, reverted |-> <<>>]

(* parseEvents: the state before the first event; 0 stands for undefined *)
NoScenario == 0
NoIndex == 0
NoSection == [scenario |-> 0, detail |-> 0]
NoAction == [scenario |-> 0, detail |-> 0, action |-> 0]
NoCleanup == [scenario |-> 0, item |-> 0]
NewParseState ==
    [report |-> <<>>, currentScenario |-> NoScenario,
     currentBDDSection |-> NoSection, inCleanup |-> FALSE,
     currentAction |-> NoAction, currentOverviewIndex |-> NoIndex,
     currentCleanup |-> NoCleanup]

(* the objects testFn constructs for a scenario *)
Components ==
    /\ events = <<>>
    /\ revertFns = <<>>
    /\ revertFn = NoRevert
    /\ cur = NoCall
    /\ calls = 0
    /\ raised = NoError
    /\ testErr = NoError
    /\ thrown = NoError
    /\ lastError = NoError
    /\ retries = 0
    /\ now = 0
    /\ timeoutMs = 0
    /\ intervalMs = 0
    /\ cluster = {}
    /\ added = <<>>
    /\ callLog = <<>>
    /\ returned = <<>>
    /\ bddCalls = <<>>
    /\ gets = <<>>
    /\ foreign = {}
    /\ kubectls = <<RootKubectl>>
    /\ heap = [recorders |-> <<>>, revertings |-> <<>>]
    /\ scenarios = [s \in ScenarioIds |-> NotStarted]
    /\ consumed = <<>>
    /\ state = NewParseState

(* no Duration is made *)
Constructed ==
    /\ Components
    /\ roundTrip = [at |-> "none", d |-> <<0>>, text |-> <<>>,
                    parsed |-> [ok |-> FALSE, ms |-> <<>>]]

(* testFn is entered; KEST_PRESERVE_ON_FAILURE is not set *)
Init ==
    /\ Constructed
    /\ pc = "testFn"
    /\ preserveOnFailure = FALSE

(* testFn is entered, in either environment *)
InitAnyEnvironment ==
    /\ Constructed
    /\ pc = "testFn"
    /\ preserveOnFailure \in BOOLEAN

retryVars == <<lastError, retries, now, timeoutMs, intervalMs>>
revertingVars == <<revertFns, revertFn, added>>
testFnVars == <<testErr, thrown>>
(* what no step of the scenario engine changes *)
(* what belongs to the reporter and the library functions                 *)
libraryVars == <<consumed, state, roundTrip>>
outerVars == <<libraryVars, preserveOnFailure, returned, bddCalls, gets, foreign,
               kubectls, heap, scenarios>>

ScenarioStartNotRecorded ==
    /\ pc = "testFn"
    /\ pc' = "body"
    /\ UNCHANGED <<events, cur, calls, raised, cluster, callLog>>
    /\ UNCHANGED <<retryVars, revertingVars, testFnVars>>
    /\ UNCHANGED outerVars

(* testFn: the scenario is created and ScenarioStart is recorded *)
ScenarioStart ==
    /\ pc = "testFn"
    /\ events' = Record(events, "ScenarioStart", [name |-> "scenario"], 0, "none")
    /\ pc' = "body"
    /\ UNCHANGED <<cur, calls, raised, cluster, callLog>>
    /\ UNCHANGED <<retryVars, revertingVars, testFnVars>>
    /\ UNCHANGED outerVars

----------------------------------------------------------------------------
(* Retry engine *)

Min(a, b) == IF a < b THEN a ELSE b
Max(a, b) == IF a > b THEN a ELSE b

(* a manifest that parseK8sResourceAny rejects, and the error apply throws *)
InvalidManifest == "invalid"
InvalidResource == "InvalidResource"

Parses(manifest) == manifest # InvalidManifest

(* fn() is called: the thunk of the action runs up to its first await,  *)
(* the spawn of a kubectl command; the thunk of apply does not get that *)
(* far when the manifest does not parse                                  *)
InvokeFn(evs, c) ==
    IF c.type = "mutate" /\ ~Parses(c.input)
    THEN evs
    ELSE RecordCommandRun(evs, Subcommand(c.type), c.input, c.call, "forward")

(* retryUntil: the sleep of one loop iteration *)
SleepMs(interval, timeout, nowMs) == Min(interval, Max(0, Max(0, timeout - nowMs)))

TimeoutExitSynthesizes(evs, lastErr, n, call) ==
    [events |-> IF n > 0
                THEN Record(evs, "RetryEnd",
                            [attempts |-> n, success |-> FALSE,
                             reason |-> "timeout", error |-> Timed],
                            call, "forward")
                ELSE evs,
     raised |-> Timed]

(* retryUntil: the code after the loop; yields the events and the error raised *)
TimeoutExit(evs, lastErr, n, call) ==
    LET err == IF lastErr = NoError THEN Timed ELSE lastErr
    IN [events |-> IF n > 0
                   THEN Record(evs, "RetryEnd",
                               [attempts |-> n, success |-> FALSE,
                                reason |-> "timeout", error |-> err],
                               call, "forward")
                   ELSE evs,
        raised |-> err]

AfterSleepCountsBeforeDeadlineCheck(evs, nowMs, lastErr, n, c) ==
    IF nowMs >= timeoutMs
    THEN LET x == TimeoutExit(evs, lastErr, n + 1, c.call)
         IN [pc |-> "settled", events |-> x.events, raised |-> x.raised,
             retries |-> n + 1, failed |-> TRUE]
    ELSE [pc |-> "fn",
          events |-> InvokeFn(Record(evs, "RetryAttempt", [attempt |-> n + 1],
                                     c.call, "forward"),
                              c),
          raised |-> NoError, retries |-> n + 1, failed |-> FALSE]

AfterSleepWithoutDeadlineCheck(evs, nowMs, lastErr, n, c) ==
    [pc |-> "fn",
     events |-> InvokeFn(Record(evs, "RetryAttempt", [attempt |-> n + 1],
                                c.call, "forward"),
                         c),
     raised |-> NoError, retries |-> n + 1, failed |-> FALSE]

(* retryUntil: after the sleep of an iteration, the deadline check and the *)
(* start of the next thunk invocation *)
AfterSleep(evs, nowMs, lastErr, n, c) ==
    IF nowMs >= timeoutMs
    THEN LET x == TimeoutExit(evs, lastErr, n, c.call)
         IN [pc |-> "settled", events |-> x.events, raised |-> x.raised,
             retries |-> n, failed |-> TRUE]
    ELSE [pc |-> "fn",
          events |-> InvokeFn(Record(evs, "RetryAttempt", [attempt |-> n + 1],
                                     c.call, "forward"),
                              c),
          raised |-> NoError, retries |-> n + 1, failed |-> FALSE]

(* retryUntil: the loop condition and the sleep, evaluated after a thunk failed *)
LoopTest(evs, nowMs, lastErr, n, c) ==
    IF nowMs < timeoutMs
    THEN IF SleepMs(intervalMs, timeoutMs, nowMs) > 0
         THEN [pc |-> "sleep", events |-> evs, raised |-> NoError,
               retries |-> n, failed |-> FALSE]
         ELSE AfterSleep(evs, nowMs, lastErr, n, c)
    ELSE LET x == TimeoutExit(evs, lastErr, n, c.call)
         IN [pc |-> "settled", events |-> x.events, raised |-> x.raised,
             retries |-> n, failed |-> TRUE]

SetStatus(log, call, status) == [log EXCEPT ![call].status = status]

(* history: a thunk invocation of the call settled *)
Resolved(log, call) == [log EXCEPT ![call].last = "resolved"]

Rejected(log, call, e) ==
    [log EXCEPT ![call].last = e, ![call].failures = @ + 1]

(* A scenario action is called: the wrapper records ActionStart and calls   *)
(* retryUntil, which parses the options and invokes the thunk a first time. *)
Call(type, input, timeout, interval) ==
    /\ pc = "body"
    /\ raised = NoError
    /\ LET c == calls + 1
           started == RecordActionStart(events, type, input, c, "forward")
       IN /\ calls' = c
          /\ cur' = [type |-> type, input |-> input, call |-> c]
          /\ IF ~timeout.valid
             THEN /\ events' = started
                  /\ raised' = InvalidDuration
                  /\ pc' = "settled"
                  /\ callLog' = Append(callLog, [type |-> type, input |-> input,
                                                 status |-> "failed",
                                                 last |-> "none", failures |-> 0])
                  /\ UNCHANGED retryVars
             ELSE /\ events' = InvokeFn(started, [type |-> type, input |-> input,
                                                  call |-> c])
                  /\ raised' = NoError
                  /\ pc' = "fn"
                  /\ callLog' = Append(callLog, [type |-> type, input |-> input,
                                                 status |-> "running",
                                                 last |-> "none", failures |-> 0])
                  /\ timeoutMs' = timeout.ms
                  /\ intervalMs' = interval
                  /\ now' = 0
                  /\ lastError' = NoError
                  /\ retries' = 0
    /\ UNCHANGED <<cluster, revertingVars, testFnVars>>
    /\ UNCHANGED outerVars

(* the body makes at most MaxCalls calls *)
CallAction(type, input, timeout, interval) ==
    /\ calls < MaxCalls
    /\ Call(type, input, timeout, interval)

(* retryUntil has returned or raised: its local variables are dead. *)
RetryExit ==
    /\ lastError' = NoError
    /\ retries' = 0
    /\ now' = 0
    /\ timeoutMs' = 0
    /\ intervalMs' = 0

(* retryUntil: fn() resolved after the events evs; retryUntil records      *)
(* RetryEnd if it retried, and returns the value.                          *)
Returns(evs) ==
    /\ events' = IF retries > 0
                 THEN Record(evs, "RetryEnd",
                             [attempts |-> retries, success |-> TRUE,
                              reason |-> "success", error |-> NoError],
                             cur.call, "forward")
                 ELSE evs
    /\ callLog' = SetStatus(Resolved(callLog, cur.call), cur.call, "succeeded")
    /\ pc' = "settled"
    /\ RetryExit
    /\ UNCHANGED raised

(* retryUntil: fn() rejected with e after the events evs and dt ms; the    *)
(* catch clause remembers e, records RetryStart the first time, and the    *)
(* loop either sleeps before the next attempt or gives up.                 *)
Caught(evs, e, dt) ==
    LET log == Rejected(callLog, cur.call, e)
        started == IF retries = 0
                   THEN Record(evs, "RetryStart", <<>>, cur.call, "forward")
                   ELSE evs
        r == LoopTest(started, now + dt, e, retries, cur)
    IN /\ events' = r.events
       /\ pc' = r.pc
       /\ raised' = r.raised
       /\ callLog' = IF r.failed THEN SetStatus(log, cur.call, "failed")
                                 ELSE log
       /\ IF r.failed
          THEN RetryExit
          ELSE /\ retries' = r.retries
               /\ now' = now + dt
               /\ lastError' = e
               /\ UNCHANGED <<timeoutMs, intervalMs>>

(* The thunk invocation resolves: the kubectl command exited with 0. *)
FnResolve ==
    /\ pc = "fn"
    /\ cur.type \in ActionTypes
    /\ Parses(cur.input)
    /\ Returns(RecordCommandResult(events, 0, cur.call, "forward"))
    /\ cluster' = CASE cur.type = "mutate" -> cluster \cup {cur.input}
                    [] cur.type = "oneWayMutate" -> cluster \ {cur.input}
                    [] OTHER -> cluster
    /\ UNCHANGED <<cur, calls>>
    /\ UNCHANGED <<revertingVars, testFnVars>>
    /\ UNCHANGED outerVars

(* The thunk invocation rejects: the kubectl command failed, or it exited  *)
(* with 0 and a test callback threw.                                       *)
FnReject(e, dt) ==
    /\ pc = "fn"
    /\ cur.type \in ActionTypes
    /\ Parses(cur.input)
    /\ e \in Errors \/ cur.type = "query"
    /\ Caught(RecordCommandResult(events, IF e \in Errors THEN 1 ELSE 0,
                                  cur.call, "forward"),
              e, dt)
    /\ UNCHANGED <<cur, calls, cluster>>
    /\ UNCHANGED <<revertingVars, testFnVars>>
    /\ UNCHANGED outerVars

(* Bun.sleep returns, after the requested time or later. *)
SleepWake(jitter) ==
    /\ pc = "sleep"
    /\ LET woke == now + SleepMs(intervalMs, timeoutMs, now) + jitter
           r == AfterSleep(events, woke, lastError, retries, cur)
       IN /\ events' = r.events
          /\ pc' = r.pc
          /\ raised' = r.raised
          /\ callLog' = IF r.failed THEN SetStatus(callLog, cur.call, "failed")
                                    ELSE callLog
          /\ IF r.failed
             THEN RetryExit
             ELSE /\ retries' = r.retries
                  /\ now' = woke
                  /\ UNCHANGED <<lastError, timeoutMs, intervalMs>>
    /\ UNCHANGED <<cur, calls, cluster>>
    /\ UNCHANGED <<revertingVars, testFnVars>>
    /\ UNCHANGED outerVars

(* The wrapper resumes after its await of retryUntil.  When retryUntil    *)
(* returned, a mutate wrapper registers the wrapped revert; the finally    *)
(* clause records ActionEnd, and control returns to the scenario body,     *)
(* with the error when there is one.                                       *)
WrapperSettle ==
    /\ pc = "settled"
    /\ IF raised = NoError /\ RegistersRevert(cur.type)
       THEN /\ revertFns' = Add(revertFns, [call |-> cur.call, input |-> cur.input,
                                            type |-> cur.type])
            /\ added' = Append(added, cur.call)
       ELSE UNCHANGED <<revertFns, added>>
    /\ events' = RecordActionEnd(events, raised, cur.call, "forward")
    /\ pc' = "body"
    /\ cur' = NoCall
    /\ UNCHANGED <<revertFn, calls, raised, cluster, callLog>>
    /\ UNCHANGED <<retryVars, testFnVars>>
    /\ UNCHANGED outerVars

----------------------------------------------------------------------------
(* The scenario body (the caller's code) and the end of testFn *)

LeaveBody(r) ==
    /\ pc' = r.pc
    /\ testErr' = r.testErr
    /\ thrown' = r.thrown
    /\ raised' = NoError
    /\ UNCHANGED <<events, cur, calls, cluster, callLog>>
    /\ UNCHANGED <<retryVars, revertingVars>>
    /\ UNCHANGED outerVars

(* The body lets the error of an action escape: testFn catches it. *)
BodyPropagate ==
    /\ pc = "body"
    /\ raised # NoError
    /\ LeaveBody(CatchBodyError(raised))

(* The body raises an error of its own (a failed expectation). *)
BodyThrow(e) ==
    /\ pc = "body"
    /\ raised = NoError
    /\ LeaveBody(CatchBodyError(e))

BodyReturn ==
    /\ pc = "body"
    /\ raised = NoError
    /\ LeaveBody([pc |-> "cleanup", testErr |-> NoError, thrown |-> NoError])

(* revert(): one iteration of the loop.  It pops a callback and invokes it: *)
(* the wrapped revert records ActionStart and runs kubectl delete, which    *)
(* is awaited.  With the stack empty the loop ends, the finally clause      *)
(* records RevertingsEnd and revert() returns.                              *)
Drain(evs, stack) ==
    IF stack = <<>>
    THEN [pc |-> "cleanedUp", events |-> RecordRevertingsEnd(evs, NoError),
          revertFns |-> Restore(stack, NoRevert), revertFn |-> NoRevert]
    ELSE LET p == Pop(stack)
             started == RecordActionStart(evs, p.fn.type, p.fn.input,
                                          p.fn.call, "revert")
         IN [pc |-> "reverting",
             events |-> IF Deletes(p.fn)
                        THEN RecordCommandRun(started, "delete", p.fn.input,
                                              p.fn.call, "revert")
                        ELSE started,
             revertFns |-> p.rest, revertFn |-> p.fn]

(* scenario.cleanup() calls reverting.revert(), which records              *)
(* RevertingsStart and enters the loop.                                     *)
RevertStart ==
    /\ pc = "cleanup"
    /\ LET r == Drain(Record(events, "RevertingsStart", <<>>, 0, "none"), revertFns)
       IN /\ events' = r.events
          /\ revertFns' = r.revertFns
          /\ revertFn' = r.revertFn
          /\ pc' = r.pc
    /\ UNCHANGED <<added, cur, calls, raised, cluster, callLog>>
    /\ UNCHANGED <<retryVars, testFnVars>>
    /\ UNCHANGED outerVars

(* The revert callback resolves: the resource is deleted, the wrapper      *)
(* records ActionEnd and the loop goes on.                                  *)
RevertResolve ==
    /\ pc = "reverting"
    /\ LET done == IF Deletes(revertFn)
                   THEN RecordCommandResult(events, 0, revertFn.call, "revert")
                   ELSE events
           r == Drain(RecordActionEnd(done, NoError, revertFn.call, "revert"),
                      revertFns)
       IN /\ events' = r.events
          /\ revertFns' = r.revertFns
          /\ revertFn' = r.revertFn
          /\ pc' = r.pc
    /\ cluster' = IF Deletes(revertFn) THEN cluster \ {revertFn.input} ELSE cluster
    /\ UNCHANGED <<added, cur, calls, raised, callLog>>
    /\ UNCHANGED <<retryVars, testFnVars>>
    /\ UNCHANGED outerVars

(* The revert callback rejects: the wrapper records ActionEnd with the     *)
(* error and rethrows it; the finally clause of revert() restores the      *)
(* callback and records RevertingsEnd, and revert() raises the error.      *)
RevertReject(e) ==
    /\ pc = "reverting"
    /\ Deletes(revertFn)
    /\ events' = RecordRevertingsEnd(
                     RecordActionEnd(
                         RecordCommandResult(events, 1, revertFn.call, "revert"),
                         e, revertFn.call, "revert"),
                     e)
    /\ revertFns' = Restore(revertFns, revertFn)
    /\ raised' = e
    /\ pc' = "cleanedUp"
    /\ UNCHANGED <<revertFn, added, cur, calls, cluster, callLog>>
    /\ UNCHANGED <<retryVars, testFnVars>>
    /\ UNCHANGED outerVars

(* testFn after the await of scenario.cleanup(): an error of the cleanup  *)
(* escapes; otherwise ScenarioEnd is recorded and the body's error, if    *)
(* any, is rethrown.                                                      *)
TestFnEnd ==
    /\ pc = "cleanedUp"
    /\ IF raised # NoError
       THEN /\ thrown' = raised
            /\ pc' = "rejected"
            /\ UNCHANGED events
       ELSE /\ events' = Record(events, "ScenarioEnd", <<>>, 0, "none")
            /\ thrown' = testErr
            /\ pc' = IF testErr # NoError THEN "rejected" ELSE "resolved"
    /\ UNCHANGED <<cur, calls, raised, testErr, cluster, callLog>>
    /\ UNCHANGED <<retryVars, revertingVars>>
    /\ UNCHANGED outerVars

Next ==
    \/ ScenarioStart
    \/ \E type \in ActionTypes, input \in Inputs, timeout \in Timeouts,
          interval \in Intervals : CallAction(type, input, timeout, interval)
    \/ FnResolve
    \/ \E e \in Errors, dt \in FnTimes : FnReject(e, dt)
    \/ \E jitter \in Jitters : SleepWake(jitter)
    \/ WrapperSettle
    \/ BodyPropagate
    \/ \E e \in BodyErrors : BodyThrow(e)
    \/ BodyReturn
    \/ RevertStart
    \/ RevertResolve
    \/ \E e \in RevertErrors : RevertReject(e)
    \/ TestFnEnd

Spec == Init /\ [][Next]_vars

(* the same test function with KEST_PRESERVE_ON_FAILURE set or not *)
AnyEnvironmentSpec == InitAnyEnvironment /\ [][Next]_vars

----------------------------------------------------------------------------
(* The reverting object in the hands of a client that calls add(), skip()  *)
(* and revert() itself, as the tests of createReverting do.                *)

RevertingInit ==
    /\ Constructed
    /\ pc = "client"
    /\ preserveOnFailure = FALSE

(* the positions at which the client, not revert(), is running *)
ClientPcs == {"client", "cleanup", "cleanedUp"}

(* reverting.add(fn) *)
ClientAdd(input) ==
    /\ pc = "client"
    /\ Len(added) < MaxCalls
    /\ revertFns' = Add(revertFns, [call |-> Len(added) + 1, input |-> input,
                                    type |-> "mutate"])
    /\ added' = Append(added, Len(added) + 1)
    /\ UNCHANGED <<events, revertFn, pc, cur, calls, raised, cluster, callLog>>
    /\ UNCHANGED <<retryVars, testFnVars, outerVars>>

(* the client has registered its callbacks and goes on to call revert() *)
ClientDone ==
    /\ pc = "client"
    /\ pc' = "cleanup"
    /\ UNCHANGED <<events, cur, calls, raised, cluster, callLog>>
    /\ UNCHANGED <<retryVars, revertingVars, testFnVars, outerVars>>

SkipDrains ==
    /\ pc \in ClientPcs
    /\ Cardinality({i \in 1 .. Len(events) : events[i].kind = "RevertingsSkipped"})
          < MaxSkips
    /\ events' = Record(events, "RevertingsSkipped", <<>>, 0, "none")
    /\ revertFns' = <<>>
    /\ cluster' = cluster \ {revertFns[i].input : i \in 1 .. Len(revertFns)}
    /\ UNCHANGED <<revertFn, added, pc, cur, calls, raised, callLog>>
    /\ UNCHANGED <<retryVars, testFnVars, outerVars>>

(* reverting.skip() *)
Skip ==
    /\ pc \in ClientPcs
    /\ Cardinality({i \in 1 .. Len(events) : events[i].kind = "RevertingsSkipped"})
          < MaxSkips
    /\ events' = Record(events, "RevertingsSkipped", <<>>, 0, "none")
    /\ UNCHANGED <<pc, cur, calls, raised, cluster, callLog>>
    /\ UNCHANGED <<retryVars, revertingVars, testFnVars, outerVars>>

RevertingNext ==
    \/ \E input \in Inputs : ClientAdd(input)
    \/ ClientDone
    \/ Skip
    \/ RevertStart
    \/ RevertResolve
    \/ \E e \in RevertErrors : RevertReject(e)

RevertingSpec == RevertingInit /\ [][RevertingNext]_vars

(* The client calls revert() again after revert() has returned or raised,  *)
(* at most MaxReverts times in all.                                         *)
MaxReverts == 2

(* await reverting.revert() once more, the error of the last call caught *)
ClientResume ==
    /\ pc = "cleanedUp"
    /\ Cardinality({i \in 1 .. Len(events) : events[i].kind = "RevertingsStart"})
          < MaxReverts
    /\ pc' = "cleanup"
    /\ raised' = NoError
    /\ UNCHANGED <<events, cur, calls, cluster, callLog>>
    /\ UNCHANGED <<retryVars, revertingVars, testFnVars, outerVars>>

ResumeNext ==
    \/ \E input \in Inputs : ClientAdd(input)
    \/ ClientDone
    \/ Skip
    \/ RevertStart
    \/ RevertResolve
    \/ \E e \in RevertErrors : RevertReject(e)
    \/ ClientResume

ResumeSpec == RevertingInit /\ [][ResumeNext]_vars

----------------------------------------------------------------------------
(* The retry engine under thunks that reject with any value: the calls of  *)
(* a scenario body up to the return of the wrapper, where the thunk of a   *)
(* query runs the caller's test callback after the kubectl command.        *)
RetryNext ==
    \/ ScenarioStart
    \/ \E type \in ActionTypes, input \in RetryInputs, timeout \in Timeouts,
          interval \in Intervals : CallAction(type, input, timeout, interval)
    \/ FnResolve
    \/ \E e \in Rejections, dt \in FnTimes : FnReject(e, dt)
    \/ \E jitter \in Jitters : SleepWake(jitter)
    \/ WrapperSettle

RetrySpec == Init /\ [][RetryNext]_vars

(* every thunk invocation completes and every timer of Bun.sleep fires *)
ThunkSettles == FnResolve \/ \E e \in Rejections, dt \in FnTimes : FnReject(e, dt)
TimerFires == \E jitter \in Jitters : SleepWake(jitter)
RetryFairSpec ==
    RetrySpec /\ WF_vars(ThunkSettles) /\ WF_vars(TimerFires)

----------------------------------------------------------------------------
(* The Recorder in the hands of a client that calls record() and           *)
(* getEvents() itself, as the reporter and the tests of the recorder do.   *)

MaxRecords == 3
MaxReads == 2
(* the kinds the client records *)
RecordedKinds == {"ScenarioStart", "BDDGiven", "ScenarioEnd"}

RecorderInit ==
    /\ Constructed
    /\ pc = "recorder"
    /\ preserveOnFailure = FALSE

(* getEvents(): the array of the recorder itself, not a copy of it; items  *)
(* is what the array holds at the time of the call                         *)
GetEvents(evs) == [live |-> TRUE, items |-> evs]

(* what a caller of getEvents() reads from the value it was given, when    *)
(* the array of the recorder holds evs                                     *)
ContentsIn(value, evs) == IF value.live THEN evs ELSE value.items

(* recorder.record(kind, {}) *)
ClientRecord(kind) ==
    /\ pc = "recorder"
    /\ Len(events) < MaxRecords
    /\ events' = Record(events, kind, <<>>, 0, "none")
    /\ UNCHANGED <<pc, cur, calls, raised, cluster, callLog>>
    /\ UNCHANGED <<retryVars, revertingVars, testFnVars, outerVars>>

(* const view = recorder.getEvents() *)
ClientGetEvents ==
    /\ pc = "recorder"
    /\ Len(returned) < MaxReads
    /\ returned' = Append(returned, GetEvents(events))
    /\ UNCHANGED <<events, pc, cur, calls, raised, cluster, callLog>>
    /\ UNCHANGED <<retryVars, revertingVars, testFnVars, libraryVars,
                   preserveOnFailure, bddCalls, gets,
                   foreign, kubectls, heap, scenarios>>

RecorderNext ==
    \/ \E kind \in RecordedKinds : ClientRecord(kind)
    \/ ClientGetEvents

RecorderSpec == RecorderInit /\ [][RecorderNext]_vars

----------------------------------------------------------------------------
(* A scenario body that annotates its steps with given/when/then/and/but   *)
(* between its actions.                                                    *)

MaxBdd == 2
Keywords == {"given", "when", "then", "and", "but"}
Descriptions == {"d1", "d2"}

BddKindAlwaysGiven(keyword) == "BDDGiven"

(* the kind each function of the bdd module records *)
BddKind(keyword) ==
    CASE keyword = "given" -> "BDDGiven"
      [] keyword = "when" -> "BDDWhen"
      [] keyword = "then" -> "BDDThen"
      [] keyword = "and" -> "BDDAnd"
      [] keyword = "but" -> "BDBut"

(* s.given(description), s.when(description), ... *)
Annotate(keyword, description) ==
    /\ pc = "body"
    /\ raised = NoError
    /\ events' = Record(events, BddKind(keyword), [description |-> description],
                        0, "none")
    /\ bddCalls' = Append(bddCalls, [keyword |-> keyword,
                                     description |-> description])
    /\ UNCHANGED <<pc, cur, calls, raised, cluster, callLog>>
    /\ UNCHANGED <<retryVars, revertingVars, testFnVars>>
    /\ UNCHANGED <<libraryVars, preserveOnFailure, returned, gets, foreign,
                   kubectls, heap, scenarios>>

(* the body makes at most MaxBdd annotations *)
Bdd(keyword, description) ==
    /\ Len(bddCalls) < MaxBdd
    /\ Annotate(keyword, description)

(* the actions of the body run with a timeout of zero *)
BddNext ==
    \/ ScenarioStart
    \/ \E interval \in Intervals :
          CallAction("mutate", "a", [valid |-> TRUE, ms |-> 0], interval)
    \/ FnResolve
    \/ FnReject("E1", 0)
    \/ WrapperSettle
    \/ \E keyword \in Keywords, description \in Descriptions :
          Bdd(keyword, description)

BddSpec == Init /\ [][BddNext]_vars

----------------------------------------------------------------------------
(* assertApplyError: the apply is expected to fail.  A scenario body that  *)
(* applies one resource and asserts that the apply of another one fails.   *)

(* the manifest whose apply is expected to fail, and the one applied *)
Rejected1 == "a"
Applied1 == "b"
(* what the test callback of the caller throws when the error is not the  *)
(* expected one                                                            *)
TestErrors == {"T1"}
(* new Error("Expected ... to err, but it succeeded") *)
Unexpected == "ExpectedToErr"

ExpectsError == cur.type = "assertApplyError"

(* kubectl apply failed and the test callback accepts the error: the      *)
(* thunk returns a revert that does nothing.                               *)
ApplyErrsTestPasses ==
    /\ pc = "fn"
    /\ ExpectsError
    /\ Returns(RecordCommandResult(events, 1, cur.call, "forward"))
    /\ UNCHANGED <<cur, calls, cluster>>
    /\ UNCHANGED <<revertingVars, testFnVars>>
    /\ UNCHANGED outerVars

(* kubectl apply failed and the test callback throws x *)
ApplyErrsTestThrows(x, dt) ==
    /\ pc = "fn"
    /\ ExpectsError
    /\ Caught(RecordCommandResult(events, 1, cur.call, "forward"), x, dt)
    /\ UNCHANGED <<cur, calls, cluster>>
    /\ UNCHANGED <<revertingVars, testFnVars>>
    /\ UNCHANGED outerVars

ApplySucceedsRevertSkipped ==
    /\ pc = "fn"
    /\ ExpectsError
    /\ cluster' = cluster \cup {cur.input}
    /\ Caught(RecordCommandResult(events, 0, cur.call, "forward"), Unexpected, 0)
    /\ UNCHANGED <<cur, calls>>
    /\ UNCHANGED <<revertingVars, testFnVars>>
    /\ UNCHANGED outerVars

(* kubectl apply exited with 0: the resource exists, and the thunk calls  *)
(* the revert that apply returned, which runs kubectl delete.              *)
ApplySucceeds ==
    /\ pc = "fn"
    /\ ExpectsError
    /\ events' = RecordCommandRun(
                     RecordCommandResult(events, 0, cur.call, "forward"),
                     "delete", cur.input, cur.call, "forward")
    /\ cluster' = cluster \cup {cur.input}
    /\ pc' = "fnRevert"
    /\ UNCHANGED <<cur, calls, raised, callLog>>
    /\ UNCHANGED <<retryVars, revertingVars, testFnVars>>
    /\ UNCHANGED outerVars

(* the delete succeeded: the thunk throws the error that says so *)
ImmediateRevertResolves(dt) ==
    /\ pc = "fnRevert"
    /\ cluster' = cluster \ {cur.input}
    /\ Caught(RecordCommandResult(events, 0, cur.call, "forward"), Unexpected, dt)
    /\ UNCHANGED <<cur, calls>>
    /\ UNCHANGED <<revertingVars, testFnVars>>
    /\ UNCHANGED outerVars

(* the delete failed: its error leaves the thunk *)
ImmediateRevertRejects(e, dt) ==
    /\ pc = "fnRevert"
    /\ Caught(RecordCommandResult(events, 1, cur.call, "forward"), e, dt)
    /\ UNCHANGED <<cur, calls, cluster>>
    /\ UNCHANGED <<revertingVars, testFnVars>>
    /\ UNCHANGED outerVars

ExpectErrorNext ==
    \/ ScenarioStart
    \/ \E timeout \in {t \in Timeouts : t.valid}, interval \in Intervals :
          \/ CallAction("mutate", Applied1, timeout, interval)
          \/ CallAction("assertApplyError", Rejected1, timeout, interval)
    \/ FnResolve
    \/ ApplyErrsTestPasses
    \/ \E x \in TestErrors, dt \in FnTimes : ApplyErrsTestThrows(x, dt)
    \/ ApplySucceeds
    \/ \E dt \in FnTimes : ImmediateRevertResolves(dt)
    \/ \E e \in RevertErrors, dt \in FnTimes : ImmediateRevertRejects(e, dt)
    \/ \E jitter \in Jitters : SleepWake(jitter)
    \/ WrapperSettle
    \/ BodyPropagate
    \/ BodyReturn
    \/ RevertStart
    \/ RevertResolve
    \/ \E e \in RevertErrors : RevertReject(e)
    \/ TestFnEnd

ExpectErrorSpec == Init /\ [][ExpectErrorNext]_vars

----------------------------------------------------------------------------
(* assertAbsence: a query whose thunk runs kubectl get and succeeds when   *)
(* the resource is not found.                                              *)

(* the errors of a failed kubectl get, and their messages, word by word *)
GetErrors == {"ENotFound", "EForbidden", "ENoMatch"}

Message(e) ==
    CASE e = "ENotFound" -> <<"Error from server", "(NotFound)", ":", "not found">>
      [] e = "EForbidden" -> <<"Error from server", "(Forbidden)", ":", "forbidden">>
      [] e = "ENoMatch" -> <<"error:", "no matches for kind", "NotFound">>
      [] OTHER -> <<>>

(* String.prototype.includes, on the words of a message *)
Includes(message, part) == \E i \in DOMAIN message : message[i] = part

IsNotFoundErrorLoose(e) ==
    Includes(Message(e), "(NotFound)") \/ Includes(Message(e), "NotFound")

IsNotFoundError(e) == Includes(Message(e), "(NotFound)")

(* new Error("Expected ... to be absent, but it exists") *)
StillExists == "ExpectedAbsent"

GotResource == "resource"

(* kubectl get exited with 0 and printed the resource: the thunk throws *)
GetReturns(dt) ==
    /\ pc = "fn"
    /\ cur.type = "assertAbsence"
    /\ gets' = Append(gets, [call |-> cur.call, got |-> GotResource])
    /\ Caught(RecordCommandResult(events, 0, cur.call, "forward"), StillExists, dt)
    /\ UNCHANGED <<cur, calls, cluster>>
    /\ UNCHANGED <<revertingVars, testFnVars>>
    /\ UNCHANGED <<libraryVars, preserveOnFailure, returned, bddCalls, foreign,
                   kubectls, heap, scenarios>>

(* kubectl get failed with e: the thunk returns when e says NotFound and   *)
(* rethrows e otherwise                                                    *)
GetRaises(e, dt) ==
    /\ pc = "fn"
    /\ cur.type = "assertAbsence"
    /\ gets' = Append(gets, [call |-> cur.call, got |-> e])
    /\ LET failed == RecordCommandResult(events, 1, cur.call, "forward")
       IN IF IsNotFoundError(e)
          THEN Returns(failed)
          ELSE Caught(failed, e, dt)
    /\ UNCHANGED <<cur, calls, cluster>>
    /\ UNCHANGED <<revertingVars, testFnVars>>
    /\ UNCHANGED <<libraryVars, preserveOnFailure, returned, bddCalls, foreign,
                   kubectls, heap, scenarios>>

AbsenceNext ==
    \/ ScenarioStart
    \/ \E timeout \in {t \in Timeouts : t.valid}, interval \in Intervals :
          CallAction("assertAbsence", "a", timeout, interval)
    \/ \E dt \in FnTimes : GetReturns(dt)
    \/ \E e \in GetErrors, dt \in FnTimes : GetRaises(e, dt)
    \/ \E jitter \in Jitters : SleepWake(jitter)
    \/ WrapperSettle

AbsenceSpec == Init /\ [][AbsenceNext]_vars

----------------------------------------------------------------------------
(* apply with a manifest that parses or one that does not, under any     *)
(* timeout option                                                         *)

(* the thunk of apply throws before it runs a command *)
ManifestRejected(dt) ==
    /\ pc = "fn"
    /\ cur.type = "mutate"
    /\ ~Parses(cur.input)
    /\ Caught(events, InvalidResource, dt)
    /\ UNCHANGED <<cur, calls, cluster>>
    /\ UNCHANGED <<revertingVars, testFnVars>>
    /\ UNCHANGED outerVars

InvalidInputNext ==
    \/ ScenarioStart
    \/ \E timeout \in Timeouts, interval \in Intervals :
          \E manifest \in {"a", InvalidManifest} :
              CallAction("mutate", manifest, timeout, interval)
    \/ FnResolve
    \/ \E dt \in FnTimes : FnReject("E1", dt)
    \/ \E dt \in FnTimes : ManifestRejected(dt)
    \/ \E jitter \in Jitters : SleepWake(jitter)
    \/ WrapperSettle
    \/ BodyPropagate
    \/ BodyReturn
    \/ RevertStart
    \/ RevertResolve
    \/ TestFnEnd

InvalidInputSpec == Init /\ [][InvalidInputNext]_vars

----------------------------------------------------------------------------
(* newNamespace: the scenario asks for a namespace, by name or with a      *)
(* generated name, in a cluster that others use too.                       *)

NamespaceNames == {"ns1", "ns2"}
(* newNamespace() and newNamespace({generateName}): the thunk makes up a   *)
(* name each time it runs                                                  *)
Generated == "generateName"
NamespaceInputs == {"ns1", Generated}

(* resolveNamespaceName: the names an attempt may come up with *)
ResolveNamespaceName(input) ==
    IF input = Generated THEN NamespaceNames ELSE {input}

(* someone else creates a namespace *)
OtherCreates(name) ==
    /\ name \notin cluster
    /\ pc \in {"body", "fn", "sleep"}
    /\ cluster' = cluster \cup {name}
    /\ foreign' = foreign \cup {name}
    /\ UNCHANGED <<events, pc, cur, calls, raised, callLog>>
    /\ UNCHANGED <<retryVars, revertingVars, testFnVars>>
    /\ UNCHANGED <<libraryVars, preserveOnFailure, returned, bddCalls, gets,
                   kubectls, heap, scenarios>>

(* kubectl apply of the Namespace exits with 0, whether or not a namespace *)
(* of that name exists; the thunk returns the name and the revert of the   *)
(* apply, which the wrapper holds from here on.                            *)
NamespaceApplied(name) ==
    /\ pc = "fn"
    /\ cur.type = "applyNamespace"
    /\ name \in ResolveNamespaceName(cur.input)
    /\ Returns(RecordCommandResult(events, 0, cur.call, "forward"))
    /\ cluster' = cluster \cup {name}
    /\ cur' = [cur EXCEPT !.input = name]
    /\ UNCHANGED calls
    /\ UNCHANGED <<revertingVars, testFnVars>>
    /\ UNCHANGED outerVars

(* kubectl apply of the Namespace fails *)
NamespaceApplyFails(e, dt) ==
    /\ pc = "fn"
    /\ cur.type = "applyNamespace"
    /\ Caught(RecordCommandResult(events, 1, cur.call, "forward"), e, dt)
    /\ UNCHANGED <<cur, calls, cluster>>
    /\ UNCHANGED <<revertingVars, testFnVars>>
    /\ UNCHANGED outerVars

NamespaceNext ==
    \/ ScenarioStart
    \/ \E name \in NamespaceNames : OtherCreates(name)
    \/ \E input \in NamespaceInputs, timeout \in {t \in Timeouts : t.valid},
          interval \in Intervals :
          CallAction("applyNamespace", input, timeout, interval)
    \/ \E name \in NamespaceNames : NamespaceApplied(name)
    \/ \E dt \in FnTimes : NamespaceApplyFails("E1", dt)
    \/ \E jitter \in Jitters : SleepWake(jitter)
    \/ WrapperSettle
    \/ BodyPropagate
    \/ BodyReturn
    \/ RevertStart
    \/ RevertResolve
    \/ \E e \in RevertErrors : RevertReject(e)
    \/ TestFnEnd

NamespaceSpec == Init /\ [][NamespaceNext]_vars

----------------------------------------------------------------------------
(* Views: useCluster binds a client to a cluster, newNamespace binds one   *)
(* to a namespace it makes, and the actions of a view run their commands   *)
(* through the client of the view.  Every action here succeeds at once.    *)
(* The events carry the view they were issued through in place of a call.  *)

MaxViews == 3
ClusterRefs == {[context |-> "c1", kubeconfig |-> "k1"],
                [context |-> "c2", kubeconfig |-> Unset]}
(* what an action passes as overrideContext: nothing, or the namespace     *)
(* that its input names                                                    *)
NoOverride == <<>>
Overrides == {NoOverride, [namespace |-> "other"]}

ExtendsDropsDefault(default, override) ==
    [f \in ContextFields |-> IF f \in DOMAIN override THEN override[f] ELSE Unset]

(* { ...defaultContext, ...overrideContext } *)
Extends(default, override) ==
    [f \in ContextFields |->
        IF f \in DOMAIN override THEN override[f] ELSE default[f]]

(* runKubectl: the flags of a context *)
CtxArgs(ctx) ==
    (IF ctx.namespace # Unset THEN <<"-n", ctx.namespace>> ELSE <<>>)
    \o (IF ctx.context # Unset THEN <<"--context", ctx.context>> ELSE <<>>)
    \o (IF ctx.kubeconfig # Unset THEN <<"--kubeconfig", ctx.kubeconfig>> ELSE <<>>)

(* an action that succeeds at the first attempt: ActionStart, the command  *)
(* with the flags of the merged context, its result, ActionEnd             *)
RunThrough(evs, view, type, name, override, phase) ==
    LET ctx == Extends(kubectls[view].ctx, override)
        run == Record(RecordActionStart(evs, type, name, view, phase),
                      "CommandRun",
                      [cmd |-> "kubectl",
                       args |-> <<Subcommand(type), name>> \o CtxArgs(ctx)],
                      view, phase)
    IN RecordActionEnd(RecordCommandResult(run, 0, view, phase), NoError,
                       view, phase)

(* s.useCluster(ref) *)
UseCluster(ref) ==
    /\ pc = "views"
    /\ Len(kubectls) <= MaxViews
    /\ kubectls' = Append(kubectls, [ctx |-> Extends(kubectls[1].ctx, ref),
                                     made |-> "useCluster", from |-> 1])
    /\ UNCHANGED <<events, pc, cur, calls, raised, cluster, callLog>>
    /\ UNCHANGED <<retryVars, revertingVars, testFnVars>>
    /\ UNCHANGED <<libraryVars, preserveOnFailure, returned, bddCalls, gets,
                   foreign, heap, scenarios>>

(* s.newNamespace(name) or cluster.newNamespace(name) *)
NewNamespace(view, name) ==
    /\ pc = "views"
    /\ Len(kubectls) <= MaxViews
    /\ kubectls[view].made \in {"testFn", "useCluster"}
    /\ events' = RunThrough(events, view, "applyNamespace", name, NoOverride,
                            "newNamespace")
    /\ cluster' = cluster \cup {name}
    /\ revertFns' = Add(revertFns, [call |-> view, input |-> name,
                                    type |-> "applyNamespace"])
    /\ kubectls' = Append(kubectls,
                          [ctx |-> Extends(kubectls[view].ctx, [namespace |-> name]),
                           made |-> "newNamespace", from |-> view])
    /\ UNCHANGED <<revertFn, added, pc, cur, calls, raised, callLog>>
    /\ UNCHANGED <<retryVars, testFnVars>>
    /\ UNCHANGED <<libraryVars, preserveOnFailure, returned, bddCalls, gets,
                   foreign, heap, scenarios>>

(* view.get(resource) or view.assert(resource): the input may name a      *)
(* namespace of its own                                                    *)
ViewGet(view, override) ==
    /\ pc = "views"
    /\ calls < MaxCalls
    /\ calls' = calls + 1
    /\ events' = RunThrough(events, view, "query", "a", override,
                            IF override = NoOverride THEN "view" ELSE "override")
    /\ UNCHANGED <<pc, cur, raised, cluster, callLog>>
    /\ UNCHANGED <<retryVars, revertingVars, testFnVars>>
    /\ UNCHANGED outerVars

ViewInit ==
    /\ Constructed
    /\ pc = "views"
    /\ preserveOnFailure = FALSE

ViewNext ==
    \/ \E ref \in ClusterRefs : UseCluster(ref)
    \/ \E view \in DOMAIN kubectls : NewNamespace(view, "ns1")
    \/ \E view \in DOMAIN kubectls, override \in Overrides : ViewGet(view, override)

ViewSpec == ViewInit /\ [][ViewNext]_vars

----------------------------------------------------------------------------
(* Test functions that run at the same time against one cluster.  Each     *)
(* call of testFn makes its Recorder, its client and its Reverting; the    *)
(* steps of the scenarios interleave at their awaits.  Every action here   *)
(* succeeds at once, and an event carries the test function that was       *)
(* running when it was recorded.                                           *)

AllocTheFirst(objects) == 1

(* new Recorder(), createReverting(): an object that no one holds yet *)
Alloc(objects) == Len(objects) + 1

Place(objects, ref, object) ==
    IF ref > Len(objects) THEN Append(objects, object) ELSE objects

RecordIn(recorders, ref, kind, data, by, phase) ==
    [recorders EXCEPT ![ref] = Record(@, kind, data, by, phase)]

ConcurrentFrame ==
    /\ UNCHANGED <<events, pc, cur, calls, raised, callLog>>
    /\ UNCHANGED <<retryVars, revertingVars, testFnVars>>
    /\ UNCHANGED <<libraryVars, preserveOnFailure, returned, bddCalls, gets,
                   foreign, kubectls>>

(* testFn is called: it makes the objects of the scenario and records     *)
(* ScenarioStart                                                           *)
TestFnStart(s) ==
    /\ pc = "concurrent"
    /\ scenarios[s].pc = "idle"
    /\ LET r == Alloc(heap.recorders)
           v == Alloc(heap.revertings)
           recorders == Place(heap.recorders, r, <<>>)
       IN /\ heap' = [recorders |-> RecordIn(recorders, r, "ScenarioStart",
                                             [name |-> "scenario"], s, "none"),
                      revertings |-> Place(heap.revertings, v,
                                           [fns |-> <<>>, recorder |-> r])]
          /\ scenarios' = [scenarios EXCEPT ![s] =
                              [pc |-> "body", recorder |-> r, reverting |-> v,
                               kubectl |-> r, applied |-> 0, reverted |-> <<>>]]
    /\ UNCHANGED cluster
    /\ ConcurrentFrame

(* s.apply(input) succeeds: the wrapper and the client of the scenario    *)
(* record, and the revert is added to the Reverting of the scenario        *)
ScenarioApply(s, input) ==
    /\ pc = "concurrent"
    /\ scenarios[s].pc = "body"
    /\ scenarios[s].applied < MaxCalls
    /\ LET me == scenarios[s]
           c == me.applied + 1
           started == RecordIn(heap.recorders, me.recorder, "ActionStart",
                               [description |-> Describe("mutate", input)],
                               s, "forward")
           run == RecordIn(started, me.kubectl, "CommandRun",
                           [cmd |-> "kubectl", args |-> <<"apply", input>>],
                           s, "forward")
           done == RecordIn(run, me.kubectl, "CommandResult", [exitCode |-> 0],
                            s, "forward")
       IN /\ heap' = [recorders |-> RecordIn(done, me.recorder, "ActionEnd",
                                             ActionEndData(NoError), s, "forward"),
                      revertings |-> [heap.revertings EXCEPT ![me.reverting].fns =
                                         Add(@, [call |-> c, input |-> input,
                                                 type |-> "mutate", owner |-> s])]]
          /\ scenarios' = [scenarios EXCEPT ![s].applied = c]
    /\ cluster' = cluster \cup {input}
    /\ ConcurrentFrame

(* the body returns and scenario.cleanup() calls revert(), which records  *)
(* RevertingsStart                                                         *)
ScenarioCleanup(s) ==
    /\ pc = "concurrent"
    /\ scenarios[s].pc = "body"
    /\ LET v == heap.revertings[scenarios[s].reverting]
       IN heap' = [heap EXCEPT !.recorders =
                      RecordIn(@, v.recorder, "RevertingsStart", <<>>, s, "none")]
    /\ scenarios' = [scenarios EXCEPT ![s].pc = "reverting"]
    /\ UNCHANGED cluster
    /\ ConcurrentFrame

(* revert(): one iteration of the loop, the callback included; the        *)
(* callback records in the Recorder of the scenario that made it.  With   *)
(* the stack empty, RevertingsEnd and ScenarioEnd are recorded.            *)
ScenarioRevert(s) ==
    /\ pc = "concurrent"
    /\ scenarios[s].pc = "reverting"
    /\ LET me == scenarios[s]
           v == heap.revertings[me.reverting]
       IN IF v.fns = <<>>
          THEN /\ heap' = [heap EXCEPT !.recorders =
                              RecordIn(RecordIn(@, v.recorder, "RevertingsEnd",
                                                <<>>, s, "none"),
                                       me.recorder, "ScenarioEnd", <<>>, s, "none")]
               /\ scenarios' = [scenarios EXCEPT ![s].pc = "done"]
               /\ UNCHANGED cluster
          ELSE LET p == Pop(v.fns)
                   its == scenarios[p.fn.owner]
                   started == RecordIn(heap.recorders, its.recorder, "ActionStart",
                                       [description |-> Describe("mutate", p.fn.input)],
                                       s, "revert")
                   run == RecordIn(started, its.kubectl, "CommandRun",
                                   [cmd |-> "kubectl",
                                    args |-> <<"delete", p.fn.input>>],
                                   s, "revert")
                   done == RecordIn(run, its.kubectl, "CommandResult",
                                    [exitCode |-> 0], s, "revert")
               IN /\ heap' = [recorders |-> RecordIn(done, its.recorder, "ActionEnd",
                                                     ActionEndData(NoError),
                                                     s, "revert"),
                              revertings |-> [heap.revertings EXCEPT
                                                 ![me.reverting].fns = p.rest]]
                  /\ scenarios' = [scenarios EXCEPT ![s].reverted =
                                      Append(@, p.fn.owner)]
                  /\ cluster' = cluster \ {p.fn.input}
    /\ ConcurrentFrame

ConcurrentInit ==
    /\ Constructed
    /\ pc = "concurrent"
    /\ preserveOnFailure = FALSE

ConcurrentNext ==
    \E s \in ScenarioIds :
        \/ TestFnStart(s)
        \/ \E input \in Inputs : ScenarioApply(s, input)
        \/ ScenarioCleanup(s)
        \/ ScenarioRevert(s)

ConcurrentSpec == ConcurrentInit /\ [][ConcurrentNext]_vars

----------------------------------------------------------------------------
(* The apply-and-assert scenario: the body is                               *)
(*   s.given(..); const ns = await s.newNamespace("ns1");                   *)
(*   s.when(..);  await ns.apply(cm);                                       *)
(*   s.then(..);  await ns.assert(cm)                                       *)

ConfigMap1 == "a"
ApplyAndAssert ==
    <<[bdd |-> TRUE, keyword |-> "given", type |-> "none", input |-> "d1"],
      [bdd |-> FALSE, keyword |-> "none", type |-> "applyNamespace",
       input |-> "ns1"],
      [bdd |-> TRUE, keyword |-> "when", type |-> "none", input |-> "d1"],
      [bdd |-> FALSE, keyword |-> "none", type |-> "mutate",
       input |-> ConfigMap1],
      [bdd |-> TRUE, keyword |-> "then", type |-> "none", input |-> "d1"],
      [bdd |-> FALSE, keyword |-> "none", type |-> "query",
       input |-> ConfigMap1]>>

(* the statements of the body that have run *)
StatementsRun == Len(bddCalls) + calls

(* the body runs its next statement *)
BodyStatement ==
    /\ StatementsRun < Len(ApplyAndAssert)
    /\ LET statement == ApplyAndAssert[StatementsRun + 1]
       IN  IF statement.bdd
           THEN Annotate(statement.keyword, statement.input)
           ELSE \E timeout \in {t \in Timeouts : t.valid},
                   interval \in Intervals :
                   Call(statement.type, statement.input, timeout, interval)

(* the body has run its last statement and returns *)
ApplyAndAssertReturn ==
    /\ StatementsRun = Len(ApplyAndAssert)
    /\ BodyReturn

ApplyAndAssertNext ==
    \/ ScenarioStart
    \/ BodyStatement
    \/ NamespaceApplied("ns1")
    \/ FnResolve
    \/ \E e \in Errors, dt \in FnTimes : FnReject(e, dt)
    \/ \E jitter \in Jitters : SleepWake(jitter)
    \/ WrapperSettle
    \/ BodyPropagate
    \/ ApplyAndAssertReturn
    \/ RevertStart
    \/ RevertResolve
    \/ TestFnEnd

ApplyAndAssertSpec == Init /\ [][ApplyAndAssertNext]_vars

----------------------------------------------------------------------------
(* The markdown reporter: parseEvents folds an event stream into a report  *)

(* The events a stream holds. The loop keeps no other state than `state`,  *)
(* so one event is consumed per step.                                       *)
MaxEvents == 5

(* error messages are lines of words; a stack is named by who raised it *)
TimedOutMessage == << <<"Timed", "out", "after", "5s">> >>
DiffMessage == << <<"-", "Expected">>, <<"+", "Received">> >>
BoomMessage == << <<"boom">> >>
NoMessage == <<>>
NoCause == [message |-> NoMessage, stack |-> Unset, given |-> FALSE]
NoSummary == [message |-> NoMessage, stack |-> Unset, cause |-> NoCause,
              given |-> FALSE]
TimeoutWithCause ==
    [message |-> TimedOutMessage, stack |-> "wrapper",
     cause |-> [message |-> DiffMessage, stack |-> "cause", given |-> TRUE],
     given |-> TRUE]
PlainFailure ==
    [message |-> BoomMessage, stack |-> "boom", cause |-> NoCause,
     given |-> TRUE]

StreamEvent(kind, data) == [kind |-> kind, data |-> data]
ScenarioStartOf(name) == StreamEvent("ScenarioStart", [name |-> name])
ScenarioEndEvent == StreamEvent("ScenarioEnd", <<>>)
RevertingsStartEvent == StreamEvent("RevertingsStart", <<>>)
RevertingsEndEvent == StreamEvent("RevertingsEnd", <<>>)
RevertingsSkippedEvent == StreamEvent("RevertingsSkipped", <<>>)
BddOf(kind, description) == StreamEvent(kind, [description |-> description])
ActionStartOf(description) ==
    StreamEvent("ActionStart", [description |-> description])
ActionEndOf(error) ==
    StreamEvent("ActionEnd", [ok |-> ~error.given, error |-> error])
CommandRunOf(cmd) == StreamEvent("CommandRun", [cmd |-> cmd, args |-> <<>>])
CommandResultOf(stdout, stderr) ==
    StreamEvent("CommandResult", [stdout |-> stdout, stderr |-> stderr])
RetryStartEvent == StreamEvent("RetryStart", <<>>)
RetryAttemptOf(n) == StreamEvent("RetryAttempt", [attempt |-> n])
RetryEndOf(n) == StreamEvent("RetryEnd", [attempts |-> n])

(* the objects of the report model *)
NewScenario(name) ==
    [name |-> name, overview |-> <<>>, details |-> <<>>, cleanup |-> <<>>,
     cleanupSkipped |-> FALSE]
NoAttempts == 0
NoReportedError == [message |-> [text |-> NoMessage, language |-> Unset],
                    stack |-> Unset, given |-> FALSE]
(* start and item are history: the index of the ActionStart event that    *)
(* made the action, and of the overview item made with it                  *)
NewAction(name, at, item) ==
    [name |-> name, commands |-> <<>>, attempts |-> NoAttempts,
     error |-> NoReportedError, start |-> at, item |-> item]
Tagged(action) ==
    [type |-> "Action", name |-> action.name, commands |-> action.commands,
     attempts |-> action.attempts, error |-> action.error,
     start |-> action.start, item |-> action.item]
NewSection(keyword, description) ==
    [type |-> "BDDSection", keyword |-> keyword, description |-> description,
     actions |-> <<>>]
NewCleanupItem(description) ==
    [action |-> description, status |-> "success",
     command |-> [cmd |-> "", output |-> ""]]
(* at is history: the index of the CommandRun event *)
CreateCommandFromRun(run, at) ==
    [cmd |-> run.data.cmd, args |-> run.data.args, stdout |-> Unset,
     stderr |-> Unset, at |-> at]

(* references into the report: 0 stands for undefined *)
ActionAt(report, ref) ==
    IF ref.action = 0
    THEN report[ref.scenario].details[ref.detail]
    ELSE report[ref.scenario].details[ref.detail].actions[ref.action]

SetAction(report, ref, action) ==
    IF ref.action = 0
    THEN [report EXCEPT ![ref.scenario].details[ref.detail] = action]
    ELSE [report EXCEPT
             ![ref.scenario].details[ref.detail].actions[ref.action] = action]

EnsureScenario(st) ==
    IF st.currentScenario # NoScenario
    THEN [report |-> st.report, scenario |-> st.currentScenario]
    ELSE [report |-> Append(st.report, NewScenario("Scenario")),
          scenario |-> Len(st.report) + 1]

ClearCurrentActionState(st) ==
    [st EXCEPT !.currentAction = NoAction,
               !.currentOverviewIndex = NoIndex,
               !.currentCleanup = NoCleanup]

KeepScenarioProgressState(st) == st

ClearScenarioProgressState(st) ==
    ClearCurrentActionState([st EXCEPT !.currentBDDSection = NoSection,
                                       !.inCleanup = FALSE])

HandleScenarioStart(st, e) ==
    ClearScenarioProgressState(
        [st EXCEPT !.report = Append(@, NewScenario(e.data.name)),
                   !.currentScenario = Len(st.report) + 1])

HandleActionStart(st, e, at) ==
    LET ensured == EnsureScenario(st)
        s == ensured.scenario
        r == ensured.report
    IN  IF st.inCleanup
        THEN [st EXCEPT
                 !.report = [r EXCEPT ![s].cleanup =
                                Append(@, NewCleanupItem(e.data.description))],
                 !.currentCleanup = [scenario |-> s,
                                     item |-> Len(r[s].cleanup) + 1],
                 !.currentAction = NoAction,
                 !.currentOverviewIndex = NoIndex]
        ELSE LET index == Len(r[s].overview) + 1
                 action == NewAction(e.data.description, at, index)
                 listed == [r EXCEPT ![s].overview =
                               Append(@, [name |-> e.data.description,
                                          status |-> "pending"])]
                 b == st.currentBDDSection
             IN  IF b # NoSection
                 THEN [st EXCEPT
                          !.report = [listed EXCEPT
                              ![b.scenario].details[b.detail].actions =
                                  Append(@, action)],
                          !.currentOverviewIndex = index,
                          !.currentAction =
                              [scenario |-> b.scenario, detail |-> b.detail,
                               action |-> Len(listed[b.scenario]
                                              .details[b.detail].actions) + 1]]
                 ELSE [st EXCEPT
                          !.report = [listed EXCEPT ![s].details =
                                         Append(@, Tagged(action))],
                          !.currentOverviewIndex = index,
                          !.currentAction =
                              [scenario |-> s,
                               detail |-> Len(listed[s].details) + 1,
                               action |-> 0]]

StartsWith(line, words) ==
    /\ Len(line) >= Len(words)
    /\ \A i \in DOMAIN words : line[i] = words[i]

IsDiffLike(message) ==
    /\ \E i \in DOMAIN message : StartsWith(message[i], <<"+">>)
    /\ \E i \in DOMAIN message : StartsWith(message[i], <<"-">>)

ApplyRegularActionEnd(st, e) ==
    IF st.currentScenario = NoScenario \/ st.currentAction = NoAction
    THEN st
    ELSE LET s == st.currentScenario
             index == st.currentOverviewIndex
             marked ==
                 IF index # NoIndex /\ index \in DOMAIN st.report[s].overview
                 THEN [st.report EXCEPT ![s].overview[index].status =
                          IF e.data.ok THEN "success" ELSE "failure"]
                 ELSE st.report
             action == ActionAt(marked, st.currentAction)
             failed ==
                 IF ~e.data.ok /\ e.data.error.given
                 THEN SetAction(marked, st.currentAction,
                          [action EXCEPT !.error =
                              [message |->
                                  [text |-> e.data.error.message,
                                   language |->
                                       IF IsDiffLike(e.data.error.message)
                                       THEN "diff" ELSE "text"],
                               stack |-> e.data.error.stack,
                               given |-> TRUE]])
                 ELSE marked
         IN  [st EXCEPT !.report = failed,
                        !.currentAction = NoAction,
                        !.currentOverviewIndex = NoIndex]

HandleActionEnd(st, e) ==
    IF st.inCleanup
    THEN LET c == st.currentCleanup
         IN  [st EXCEPT
                 !.report = IF c # NoCleanup
                            THEN [@ EXCEPT ![c.scenario].cleanup[c.item].status =
                                     IF e.data.ok THEN "success" ELSE "failure"]
                            ELSE @,
                 !.currentCleanup = NoCleanup]
    ELSE ApplyRegularActionEnd(st, e)

HandleCommandRun(st, e, at) ==
    IF st.inCleanup
    THEN LET c == st.currentCleanup
         IN  IF c # NoCleanup
             THEN [st EXCEPT !.report[c.scenario].cleanup[c.item].command =
                                 [cmd |-> e.data.cmd, output |-> ""]]
             ELSE st
    ELSE IF st.currentAction = NoAction
         THEN st
         ELSE LET action == ActionAt(st.report, st.currentAction)
              IN  [st EXCEPT !.report =
                      SetAction(@, st.currentAction,
                          [action EXCEPT !.commands =
                              Append(@, CreateCommandFromRun(e, at))])]

HandleCommandResult(st, e) ==
    IF st.inCleanup
    THEN LET c == st.currentCleanup
         IN  IF c # NoCleanup
             THEN [st EXCEPT
                      !.report[c.scenario].cleanup[c.item].command.output =
                          IF e.data.stdout # "" THEN e.data.stdout
                                                ELSE e.data.stderr]
             ELSE st
    ELSE IF st.currentAction = NoAction
         THEN st
         ELSE LET action == ActionAt(st.report, st.currentAction)
                  n == Len(action.commands)
              IN  IF n = 0
                  THEN st
                  ELSE [st EXCEPT !.report =
                           SetAction(@, st.currentAction,
                               [action EXCEPT
                                   !.commands[n].stdout = e.data.stdout,
                                   !.commands[n].stderr = e.data.stderr])]

HandleRetryAttemptKeepsCommands(st) == st

HandleRetryAttempt(st) ==
    IF st.inCleanup \/ st.currentAction = NoAction
    THEN st
    ELSE LET action == ActionAt(st.report, st.currentAction)
         IN  [st EXCEPT !.report =
                 SetAction(@, st.currentAction,
                           [action EXCEPT !.commands = <<>>])]

HandleRetryEnd(st, e) ==
    IF st.inCleanup \/ st.currentAction = NoAction
    THEN st
    ELSE LET action == ActionAt(st.report, st.currentAction)
         IN  [st EXCEPT !.report =
                 SetAction(@, st.currentAction,
                           [action EXCEPT !.attempts = e.data.attempts])]

BddKeywordByKind ==
    [BDDGiven |-> "given", BDDWhen |-> "when", BDDThen |-> "then",
     BDDAnd |-> "and", BDBut |-> "but"]

IsBDDEvent(e) == e.kind \in DOMAIN BddKeywordByKind

HandleBDDEvent(st, e) ==
    LET ensured == EnsureScenario(st)
        s == ensured.scenario
        r == ensured.report
    IN  [st EXCEPT
            !.report = [r EXCEPT ![s].details =
                           Append(@, NewSection(BddKeywordByKind[e.kind],
                                                e.data.description))],
            !.currentScenario = s,
            !.currentBDDSection = [scenario |-> s,
                                   detail |-> Len(r[s].details) + 1]]

HandleNonBDDEvent(st, e, at) ==
    CASE e.kind = "ScenarioStart" -> HandleScenarioStart(st, e)
      [] e.kind = "ScenarioEnd" -> ClearScenarioProgressState(st)
      [] e.kind = "RevertingsStart" ->
             ClearCurrentActionState([st EXCEPT !.inCleanup = TRUE])
      [] e.kind = "RevertingsEnd" ->
             ClearCurrentActionState([st EXCEPT !.inCleanup = FALSE])
      [] e.kind = "RevertingsSkipped" ->
             LET ensured == EnsureScenario(st)
             IN  [st EXCEPT !.report =
                     [ensured.report EXCEPT
                         ![ensured.scenario].cleanupSkipped = TRUE]]
      [] e.kind = "ActionStart" -> HandleActionStart(st, e, at)
      [] e.kind = "ActionEnd" -> HandleActionEnd(st, e)
      [] e.kind = "CommandRun" -> HandleCommandRun(st, e, at)
      [] e.kind = "CommandResult" -> HandleCommandResult(st, e)
      [] e.kind = "RetryEnd" -> HandleRetryEnd(st, e)
      [] e.kind = "RetryAttempt" -> HandleRetryAttempt(st)
      [] OTHER -> st

(* one iteration of the loop of parseEvents *)
Handle(st, e, at) ==
    IF IsBDDEvent(e) THEN HandleBDDEvent(st, e)
                     ELSE HandleNonBDDEvent(st, e, at)

ParserFrame ==
    /\ UNCHANGED <<events, pc, cur, calls, raised, cluster, callLog>>
    /\ UNCHANGED <<retryVars, revertingVars, testFnVars>>
    /\ UNCHANGED <<roundTrip, preserveOnFailure, returned, bddCalls, gets,
                   foreign, kubectls, heap, scenarios>>

(* for (const event of events): the loop takes the next event *)
Consume(e) ==
    /\ pc = "parser"
    /\ Len(consumed) < MaxEvents
    /\ consumed' = Append(consumed, e)
    /\ state' = Handle(state, e, Len(consumed) + 1)
    /\ ParserFrame

(* parseEvents is called *)
ParserInit ==
    /\ Constructed
    /\ pc = "parser"
    /\ preserveOnFailure = FALSE

(* streams of one action that is retried *)
RetriedActionEvents ==
    <<ScenarioStartOf("s1"), BddOf("BDDWhen", "d1"), ActionStartOf("A1"),
      CommandRunOf("c1"), CommandRunOf("c2"), CommandResultOf("out", ""),
      RetryAttemptOf(1), ActionEndOf(NoSummary)>>

FoldNext == \E i \in DOMAIN RetriedActionEvents : Consume(RetriedActionEvents[i])

FoldSpec == ParserInit /\ [][FoldNext]_vars

(* streams of one action that ends with an error *)
FailedActionEvents ==
    <<ScenarioStartOf("s1"), BddOf("BDDThen", "d1"), ActionStartOf("A1"),
      ActionEndOf(TimeoutWithCause), ActionEndOf(PlainFailure),
      ActionEndOf(NoSummary), RetryEndOf(2), RevertingsStartEvent>>

FailedActionNext ==
    \E i \in DOMAIN FailedActionEvents : Consume(FailedActionEvents[i])

FailedActionSpec == ParserInit /\ [][FailedActionNext]_vars

(* renderReport: the status an action of Scenario Details is shown with. *)
(* overviewStatusByName is a Map built from the overview items in order, *)
(* so a later item replaces an earlier one of the same name.              *)
OverviewStatusByName(scenario, name) ==
    LET named == {i \in DOMAIN scenario.overview :
                     scenario.overview[i].name = name}
    IN  IF named = {}
        THEN Unset
        ELSE scenario.overview[CHOOSE i \in named :
                                   \A j \in named : j <= i].status

RenderAction(scenario, action) ==
    LET status == OverviewStatusByName(scenario, action.name)
    IN  IF status # Unset
        THEN status
        ELSE IF action.error.given
             THEN "failure"
             ELSE IF Len(action.commands) > 0 THEN "success" ELSE "pending"

(* a stream in which two actions can have the same description *)
SameNameEvents ==
    <<ScenarioStartOf("s1"), BddOf("BDDWhen", "d1"), ActionStartOf("A1"),
      ActionStartOf("A2"), CommandRunOf("c1"), ActionEndOf(NoSummary),
      ActionEndOf(PlainFailure)>>

SameNameNext == \E i \in DOMAIN SameNameEvents : Consume(SameNameEvents[i])

SameNameSpec == ParserInit /\ [][SameNameNext]_vars

(* a stream of several scenarios, some ending inside a cleanup phase or *)
(* inside a BDD section                                                  *)
SeveralScenariosEvents ==
    <<ScenarioStartOf("s1"), ScenarioEndEvent, RevertingsStartEvent,
      BddOf("BDDGiven", "d1"), ActionStartOf("A1"), CommandRunOf("c1"),
      ActionEndOf(PlainFailure)>>

SeveralScenariosNext ==
    \E i \in DOMAIN SeveralScenariosEvents :
        Consume(SeveralScenariosEvents[i])

SeveralScenariosSpec == ParserInit /\ [][SeveralScenariosNext]_vars

(* The reporter of reporter/markdown.ts, which read the events of an       *)
(* earlier recorder (ScenarioStarted, ActionStart with action and phase)   *)
UnwrapRetryTimeoutCauseMessage(error) ==
    IF /\ error.message # NoMessage
       /\ StartsWith(error.message[1], <<"Timed", "out", "after">>)
       /\ error.cause.given
       /\ error.cause.message # NoMessage
    THEN [message |-> error.cause.message, stack |-> error.cause.stack,
          given |-> TRUE]
    ELSE [message |-> NoMessage, stack |-> Unset, given |-> FALSE]

ToActionErrorModel(error) ==
    LET unwrapped == UnwrapRetryTimeoutCauseMessage(error)
    IN  IF unwrapped.given
        THEN [message |-> unwrapped.message, stack |-> unwrapped.stack]
        ELSE [message |-> error.message, stack |-> error.stack]

----------------------------------------------------------------------------
(* Duration: toString and parseDuration.  A count of milliseconds is a     *)
(* sequence of decimal digits, most significant first, since the counts    *)
(* reach 2^53; a string is a sequence of characters.                       *)

MsPerS == 1000
MsPerM == 60000
MsPerH == 3600000
(* Number.MAX_SAFE_INTEGER, 2^53 - 1 *)
MaxSafeInteger == <<9, 0, 0, 7, 1, 9, 9, 2, 5, 4, 7, 4, 0, 9, 9, 1>>

DigitChars == <<"0", "1", "2", "3", "4", "5", "6", "7", "8", "9">>
IsDigit(c) == \E i \in DOMAIN DigitChars : DigitChars[i] = c
DigitValue(c) == (CHOOSE i \in DOMAIN DigitChars : DigitChars[i] = c) - 1
Front(s) == SubSeq(s, 1, Len(s) - 1)
Last(s) == s[Len(s)]

RECURSIVE Digits(_)
Digits(n) == IF n < 10 THEN <<n>> ELSE Append(Digits(n \div 10), n % 10)

RECURSIVE Strip(_)
Strip(n) == IF Len(n) > 1 /\ n[1] = 0 THEN Strip(Tail(n)) ELSE n

(* quotient and remainder of n by the small number k *)
RECURSIVE DivRem(_, _, _, _)
DivRem(n, k, q, r) ==
    IF n = <<>>
    THEN [q |-> Strip(q), r |-> r]
    ELSE LET x == r * 10 + Head(n)
         IN  DivRem(Tail(n), k, Append(q, x \div k), x % k)

RECURSIVE TimesCarry(_, _, _)
TimesCarry(n, k, carry) ==
    IF n = <<>>
    THEN Digits(carry)
    ELSE LET x == Last(n) * k + carry
         IN  Append(TimesCarry(Front(n), k, x \div 10), x % 10)

Times(n, k) == Strip(TimesCarry(n, k, 0))

RECURSIVE PlusCarry(_, _, _)
PlusCarry(a, b, carry) ==
    IF a = <<>> /\ b = <<>>
    THEN <<carry>>
    ELSE LET x == (IF a = <<>> THEN 0 ELSE Last(a))
                  + (IF b = <<>> THEN 0 ELSE Last(b)) + carry
         IN  Append(PlusCarry(IF a = <<>> THEN a ELSE Front(a),
                              IF b = <<>> THEN b ELSE Front(b), x \div 10),
                    x % 10)

Plus(a, b) == Strip(PlusCarry(a, b, 0))

AtMost(a, b) ==
    \/ Len(a) < Len(b)
    \/ /\ Len(a) = Len(b)
       /\ \/ a = b
          \/ \E i \in DOMAIN a : /\ a[i] < b[i]
                                 /\ \A j \in 1 .. i - 1 : a[j] = b[j]

Chars(n) == [i \in DOMAIN n |-> DigitChars[n[i] + 1]]
Number(cs) == Strip([i \in DOMAIN cs |-> DigitValue(cs[i])])

NoPadStart(cs) == cs

(* String(remMs).padStart(3, "0") *)
PadStart(cs) ==
    IF Len(cs) = 1 THEN <<"0", "0">> \o cs
    ELSE IF Len(cs) = 2 THEN <<"0">> \o cs ELSE cs

(* .replace(/0+$/, "") *)
RECURSIVE StripTrailingZeros(_)
StripTrailingZeros(cs) ==
    IF cs # <<>> /\ Last(cs) = "0" THEN StripTrailingZeros(Front(cs)) ELSE cs

(* Duration.toString *)
DurationToString(ms) ==
    IF ms = <<0>> THEN <<"0">>
    ELSE IF Len(ms) <= 3 THEN Chars(ms) \o <<"m", "s">>
    ELSE LET h == DivRem(ms, MsPerH, <<>>, 0)
             minutes == h.r \div MsPerM
             seconds == (h.r % MsPerM) \div MsPerS
             remMs == (h.r % MsPerM) % MsPerS
             out == (IF h.q # <<0>> THEN Chars(h.q) \o <<"h">> ELSE <<>>)
                    \o (IF minutes > 0 THEN Chars(Digits(minutes)) \o <<"m">>
                                       ELSE <<>>)
         IN  IF seconds > 0 \/ remMs > 0 \/ out = <<>>
             THEN IF remMs = 0
                  THEN out \o Chars(Digits(seconds)) \o <<"s">>
                  ELSE out \o Chars(Digits(seconds)) \o <<".">>
                       \o StripTrailingZeros(PadStart(Chars(Digits(remMs))))
                       \o <<"s">>
             ELSE out

RECURSIVE Pow10(_)
Pow10(exp) == IF exp = 0 THEN 1 ELSE 10 * Pow10(exp - 1)

(* value is like "12" or "12.34": whole and frac are its two parts *)
ParseDecimalToMilliseconds(whole, frac, unitMs) ==
    IF frac = <<>>
    THEN Times(Number(whole), unitMs)
    ELSE Plus(Times(Number(whole), unitMs),
              DivRem(Times(Number(frac), unitMs), Pow10(Len(frac)), <<>>, 0).q)

(* the end of the run of digits that starts at pos *)
DigitsEnd(s, pos) ==
    CHOOSE j \in pos .. Len(s) + 1 :
        /\ \A i \in pos .. j - 1 : IsDigit(s[i])
        /\ j = Len(s) + 1 \/ ~IsDigit(s[j])

(* (ms|s|m|h) at pos, and unitToMilliseconds of it *)
UnitAt(s, pos) ==
    IF pos + 1 <= Len(s) /\ s[pos] = "m" /\ s[pos + 1] = "s"
    THEN [len |-> 2, ms |-> 1]
    ELSE IF pos <= Len(s) /\ s[pos] = "s" THEN [len |-> 1, ms |-> MsPerS]
    ELSE IF pos <= Len(s) /\ s[pos] = "m" THEN [len |-> 1, ms |-> MsPerM]
    ELSE IF pos <= Len(s) /\ s[pos] = "h" THEN [len |-> 1, ms |-> MsPerH]
    ELSE [len |-> 0, ms |-> 0]

(* re.exec(s) with the sticky expression at lastIndex = pos *)
Exec(s, pos) ==
    LET wholeEnd == DigitsEnd(s, pos)
        hasFrac == /\ wholeEnd <= Len(s)
                   /\ s[wholeEnd] = "."
                   /\ DigitsEnd(s, wholeEnd + 1) > wholeEnd + 1
        valueEnd == IF hasFrac THEN DigitsEnd(s, wholeEnd + 1) ELSE wholeEnd
        unit == UnitAt(s, valueEnd)
    IN  IF wholeEnd = pos \/ unit.len = 0
        THEN [matched |-> FALSE, lastIndex |-> 0, ms |-> <<0>>]
        ELSE [matched |-> TRUE, lastIndex |-> valueEnd + unit.len,
              ms |-> ParseDecimalToMilliseconds(
                         SubSeq(s, pos, wholeEnd - 1),
                         IF hasFrac THEN SubSeq(s, wholeEnd + 1, valueEnd - 1)
                                    ELSE <<>>,
                         unit.ms)]

(* the loop of parseDuration: [totalMs, consumed] when exec matches no more *)
RECURSIVE MatchAll(_, _, _)
MatchAll(s, pos, totalMs) ==
    LET m == Exec(s, pos)
    IN  IF pos > Len(s) \/ ~m.matched
        THEN [totalMs |-> totalMs, consumed |-> pos - 1]
        ELSE MatchAll(s, m.lastIndex, Plus(totalMs, m.ms))

InvalidDurationResult == [ok |-> FALSE, ms |-> <<0>>]

(* parseDuration: ok is FALSE when it throws "invalid duration" *)
ParseDuration(input) ==
    IF \/ input = <<>>
       \/ input[1] \in {" ", "-", "+"}
       \/ Last(input) = " "
    THEN InvalidDurationResult
    ELSE IF input = <<"0">>
    THEN [ok |-> TRUE, ms |-> <<0>>]
    ELSE LET all == MatchAll(input, 1, <<0>>)
         IN  IF all.consumed = 0 \/ all.consumed # Len(input)
             THEN InvalidDurationResult
             ELSE IF ~AtMost(all.totalMs, MaxSafeInteger)
             THEN InvalidDurationResult
             ELSE [ok |-> TRUE, ms |-> all.totalMs]

(* the durations that are made: every mix of these hours, minutes, seconds *)
(* and milliseconds, and the counts around Number.MAX_SAFE_INTEGER         *)
SomeHours == {0, 1, 27}
SomeMinutes == {0, 1, 59}
SomeSeconds == {0, 1, 59}
SomeMillis == {0, 1, 50, 500, 999}
TwoTo53 == <<9, 0, 0, 7, 1, 9, 9, 2, 5, 4, 7, 4, 0, 9, 9, 2>>
Durations ==
    {Digits(h * MsPerH + m * MsPerM + s * MsPerS + ms) :
        h \in SomeHours, m \in SomeMinutes, s \in SomeSeconds,
        ms \in SomeMillis}
    \cup {MaxSafeInteger, TwoTo53}

NotRendered == <<>>
NotParsed == [ok |-> FALSE, ms |-> <<>>]
NoRoundTrip == [at |-> "none", d |-> <<0>>, text |-> NotRendered,
                parsed |-> NotParsed]

RoundTripFrame ==
    /\ UNCHANGED <<events, pc, cur, calls, raised, cluster, callLog>>
    /\ UNCHANGED <<retryVars, revertingVars, testFnVars>>
    /\ UNCHANGED <<consumed, state, preserveOnFailure, returned, bddCalls,
                   gets, foreign, kubectls, heap, scenarios>>

(* const text = d.toString() *)
Render ==
    /\ roundTrip.at = "made"
    /\ roundTrip' = [roundTrip EXCEPT !.at = "rendered",
                                      !.text = DurationToString(roundTrip.d)]
    /\ RoundTripFrame

(* const parsed = parseDuration(text) *)
Parse ==
    /\ roundTrip.at = "rendered"
    /\ roundTrip' = [roundTrip EXCEPT !.at = "parsed",
                                      !.parsed = ParseDuration(roundTrip.text)]
    /\ RoundTripFrame

(* const d = new Duration(ms) *)
RoundTripInit ==
    /\ Components
    /\ pc = "duration"
    /\ preserveOnFailure = FALSE
    /\ roundTrip \in {[NoRoundTrip EXCEPT !.at = "made", !.d = d] :
                         d \in Durations}

RoundTripNext == Render \/ Parse

RoundTripSpec == RoundTripInit /\ [][RoundTripNext]_vars

----------------------------------------------------------------------------
(* Reading the event log *)

Indices(kind) == {i \in 1 .. Len(events) : events[i].kind = kind}

IsAction(e) == e.kind \in {"ActionStart", "ActionEnd"}

ActionEvents == SelectSeq(events, IsAction)

IsRevertStart(e) == e.kind = "ActionStart" /\ e.phase = "revert"

IsRevertEnd(e) == e.kind = "ActionEnd" /\ e.phase = "revert"

RevertStarts == SelectSeq(events, IsRevertStart)

RevertEnds == SelectSeq(events, IsRevertEnd)

(* the calls whose revert callback was invoked, in the order of invocation *)
Invoked == [i \in 1 .. Len(RevertStarts) |-> RevertStarts[i].call]

Reverse(s) == [i \in 1 .. Len(s) |-> s[Len(s) + 1 - i]]

Range(s) == {s[i] : i \in 1 .. Len(s)}

CallPcs == {"body", "fn", "sleep", "settled"}

ForwardPcs == CallPcs \cup {"cleanup"}

CleanupEnded == pc \in {"cleanedUp", "resolved", "rejected"}

SucceededMutates ==
    {c \in 1 .. Len(callLog) :
        callLog[c].type = "mutate" /\ callLog[c].status = "succeeded"}

RevertFailed == \E i \in 1 .. Len(events) : IsRevertEnd(events[i]) /\ ~events[i].data.ok

----------------------------------------------------------------------------
(* C1: during revert() the callbacks are invoked one at a time, each       *)
(* settled before the next is popped, in exactly the reverse of the order  *)
(* in which they were added.                                               *)
C1_RevertsRunInReverseAddOrder ==
    /\ Invoked = SubSeq(Reverse(added), 1, Len(Invoked))
    /\ Len(RevertStarts) - Len(RevertEnds) = IF pc = "reverting" THEN 1 ELSE 0
    /\ pc = "reverting" => revertFn.call = Invoked[Len(Invoked)]

C1_Witness ==
    /\ pc = "resolved"
    /\ added = <<1, 2>>
    /\ Invoked = <<2, 1>>

(* C2: when the scenario body raised, the finished test function has run   *)
(* the cleanup phase: the log holds RevertingsStart followed by            *)
(* RevertingsEnd, or RevertingsSkipped.                                    *)
C2_CleanupPhaseAfterBodyError ==
    (pc \in {"resolved", "rejected"} /\ testErr # NoError) =>
        \/ \E i \in Indices("RevertingsStart") :
              \E j \in Indices("RevertingsEnd") : i < j
        \/ Indices("RevertingsSkipped") # {}

C2_Witness ==
    /\ pc = "rejected"
    /\ testErr \in Errors
    /\ \E i \in Indices("RetryEnd") :
          ~events[i].data.success /\ events[i].data.error = testErr

C4_FailedRevertRestored ==
    (CleanupEnded /\ RevertFailed) =>
        /\ revertFns # <<>>
        /\ revertFns[Len(revertFns)] = revertFn
        /\ revertFn.call = Invoked[Len(Invoked)]
        /\ [i \in 1 .. Len(revertFns) |-> revertFns[i].call]
              = SubSeq(added, 1, Len(revertFns))
        /\ \A i \in 1 .. Len(revertFns) - 1 : revertFns[i].call \notin Range(Invoked)
        /\ raised = RevertEnds[Len(RevertEnds)].data.error
        /\ pc = "rejected" => thrown = raised

C4_Witness ==
    /\ pc = "rejected"
    /\ RevertFailed
    /\ Len(revertFns) = 2
    /\ Invoked = <<2>>

(* C5: a call of revert() records exactly one RevertingsStart, before any  *)
(* callback runs, and exactly one RevertingsEnd, after the last callback   *)
(* activity and before revert() returns or raises, also when a callback    *)
(* raised.                                                                  *)
C5_OneStartOneEndPerRevert ==
    /\ Cardinality(Indices("RevertingsStart"))
         = IF pc = "reverting" \/ CleanupEnded
           THEN 1 ELSE 0
    /\ Cardinality(Indices("RevertingsEnd")) = IF CleanupEnded THEN 1 ELSE 0
    /\ \A i \in 1 .. Len(events) :
          events[i].phase = "revert" =>
             /\ \E s \in Indices("RevertingsStart") : s < i
             /\ \A e \in Indices("RevertingsEnd") : i < e

C5_Witness ==
    /\ pc = "cleanedUp"
    /\ raised \in RevertErrors
    /\ events[Len(events)].kind = "RevertingsEnd"
    /\ events[Len(events) - 1].kind = "ActionEnd"
    /\ ~events[Len(events) - 1].data.ok

(* C6: before the cleanup, the stack holds exactly one callback of every   *)
(* mutate call whose forward phase succeeded, from the moment the wrapper  *)
(* registered it (after the successful attempt, before control returns to  *)
(* the body), and none of any other call.                                   *)
C6_OneRevertPerSuccessfulMutate ==
    pc \in ForwardPcs =>
        \A c \in 1 .. Len(callLog) :
            Cardinality({i \in 1 .. Len(revertFns) : revertFns[i].call = c})
                = IF c \in SucceededMutates /\ ~(pc = "settled" /\ cur.call = c)
                  THEN 1 ELSE 0

C6_Witness ==
    /\ pc = "body"
    /\ raised = NoError
    /\ calls > 0
    /\ callLog[calls].type = "mutate"
    /\ \E i \in Indices("RetryAttempt") : events[i].call = calls
    /\ Len(revertFns) = 1
    /\ revertFns[1].call = calls

(* C7: no step of a one-way mutate call, of a query call or of a mutate    *)
(* call whose forward phase fails changes the reverting stack: in the      *)
(* forward phase only the return of a mutate call's retryUntil does.       *)
C7_OnlySuccessfulMutateChangesStack ==
    [][(pc \in CallPcs /\ ~(pc = "settled" /\ cur.type = "mutate" /\ raised = NoError))
          => revertFns' = revertFns]_vars

C7_Witness ==
    /\ pc = "body"
    /\ Len(callLog) = 2
    /\ callLog[1].type = "mutate" /\ callLog[1].status = "succeeded"
    /\ callLog[2].type = "oneWayMutate" /\ callLog[2].status = "succeeded"
    /\ Len(revertFns) = 1

(* C8: ActionStart and ActionEnd strictly alternate in the log, starting   *)
(* with ActionStart, each ActionEnd closing the action opened before it;   *)
(* no action is open between two calls or when the test function ends.    *)
C8_ActionsBalancedNeverNested ==
    /\ \A i \in 1 .. Len(ActionEvents) :
          /\ ActionEvents[i].kind = IF i % 2 = 1 THEN "ActionStart" ELSE "ActionEnd"
          /\ i % 2 = 0 =>
                /\ ActionEvents[i].call = ActionEvents[i - 1].call
                /\ ActionEvents[i].phase = ActionEvents[i - 1].phase
    /\ (pc \in {"body", "cleanup"} \/ CleanupEnded)
          => Len(ActionEvents) % 2 = 0

C8_Witness ==
    /\ pc = "rejected"
    /\ RevertFailed
    /\ Len(ActionEvents) = 6

(* C9: every action call records exactly one ActionStart, before its body  *)
(* first runs, and exactly one ActionEnd, when it finishes; ok is true iff *)
(* the call returns normally, and otherwise error is the error raised to   *)
(* the scenario body.                                                       *)
C9_OneStartOneEndPerCall ==
    /\ \A c \in 1 .. Len(callLog) :
          LET starts == {i \in Indices("ActionStart") :
                             events[i].call = c /\ events[i].phase = "forward"}
              ends == {i \in Indices("ActionEnd") :
                             events[i].call = c /\ events[i].phase = "forward"}
              runs == {i \in Indices("CommandRun") :
                             events[i].call = c /\ events[i].phase = "forward"}
          IN /\ Cardinality(starts) = 1
             /\ \A i \in starts : \A j \in runs : i < j
             /\ Cardinality(ends) = IF cur.call = c THEN 0 ELSE 1
             /\ \A i \in ends :
                   /\ \A j \in runs : j < i
                   /\ events[i].data.ok = (callLog[c].status = "succeeded")
                   /\ events[i].data.ok = (events[i].data.error = NoError)
    /\ (pc = "body" /\ calls > 0) =>
          LET last == events[Len(events)]
          IN /\ last.kind = "ActionEnd" /\ last.call = calls
             /\ raised # NoError => (~last.data.ok /\ last.data.error = raised)

C9_Witness ==
    /\ pc = "body"
    /\ raised \in Errors
    /\ \E i \in Indices("RetryAttempt") : events[i].call = calls
    /\ events[Len(events)].data.error = raised

(* C10: before the ActionStart of a revert action the log holds exactly    *)
(* one ActionEnd with ok = true of the forward phase of the same call, and *)
(* every mutate call that succeeded has exactly one such ActionEnd.        *)
C10_ForwardEndBeforeRevertStart ==
    /\ \A i \in 1 .. Len(events) :
          IsRevertStart(events[i]) =>
              Cardinality({j \in 1 .. i - 1 :
                              /\ events[j].kind = "ActionEnd"
                              /\ events[j].phase = "forward"
                              /\ events[j].call = events[i].call
                              /\ events[j].data.ok}) = 1
    /\ pc \notin ForwardPcs =>
          \A c \in SucceededMutates :
              Cardinality({j \in Indices("ActionEnd") :
                              /\ events[j].phase = "forward"
                              /\ events[j].call = c
                              /\ events[j].data.ok}) = 1

C10_Witness ==
    /\ pc = "reverting"
    /\ Len(Invoked) = 2
    /\ callLog[1].input = callLog[2].input

----------------------------------------------------------------------------
(* Reading the outcome of retryUntil: the wrapper is about to resume *)

Returned(c) == pc = "settled" /\ cur.call = c /\ raised = NoError

Raised(c) == pc = "settled" /\ cur.call = c /\ raised # NoError

(* the thunk invocations of call c *)
Invocations(c) ==
    {i \in Indices("CommandRun") : events[i].call = c /\ events[i].phase = "forward"}

Of(kind, c) == {i \in Indices(kind) : events[i].call = c}

Exited(c) == c # cur.call \/ pc = "settled"

(* C13: for every call of retryUntil that has ended, RetryStart is         *)
(* recorded iff RetryEnd is recorded, and both are iff the thunk was       *)
(* invoked again after its first failure; a call whose first invocation    *)
(* succeeds records no retry event.                                        *)
C13_RetryStartIffRetryEnd ==
    \A c \in 1 .. Len(callLog) :
        Exited(c) =>
            /\ (Of("RetryStart", c) # {}) = (Of("RetryEnd", c) # {})
            /\ (Of("RetryStart", c) # {}) = (Cardinality(Invocations(c)) > 1)
            /\ (callLog[c].status = "succeeded" /\ callLog[c].failures = 0) =>
                  Of("RetryStart", c) \cup Of("RetryAttempt", c)
                      \cup Of("RetryEnd", c) = {}

(* C14: a call of retryUntil with timeout = 0 ends with the settlement of  *)
(* the first thunk invocation, whether it resolves or rejects, and has     *)
(* recorded no retry event.                                                *)
C14_ZeroTimeoutOneInvocationNoRetryEvents ==
    [][(pc = "fn" /\ timeoutMs = 0) =>
          /\ pc' = "settled"
          /\ Cardinality(Invocations(cur.call))' = 1
          /\ \A i \in 1 .. Len(events') :
                events'[i].call = cur.call =>
                    events'[i].kind \notin {"RetryStart", "RetryAttempt", "RetryEnd"}]_vars

RetryKinds == {"RetryStart", "RetryAttempt", "RetryEnd"}

(* C15: every retry event lies inside an action: the last action event     *)
(* before it is the ActionStart of the forward phase of its call, the      *)
(* first action event after it is the ActionEnd of that call, and that     *)
(* ActionEnd is there once the call is over.                               *)
C15_RetryEventsInsideAction ==
    \A i \in 1 .. Len(events) :
        events[i].kind \in RetryKinds =>
            /\ \E j \in 1 .. i - 1 :
                  /\ events[j].kind = "ActionStart"
                  /\ events[j].phase = "forward"
                  /\ events[j].call = events[i].call
                  /\ \A k \in j + 1 .. i - 1 : ~IsAction(events[k])
            /\ \A j \in i + 1 .. Len(events) :
                  (IsAction(events[j]) /\ \A k \in i + 1 .. j - 1 : ~IsAction(events[k]))
                      => /\ events[j].kind = "ActionEnd"
                         /\ events[j].phase = "forward"
                         /\ events[j].call = events[i].call
            /\ events[i].call # cur.call =>
                  \E j \in i + 1 .. Len(events) : events[j].kind = "ActionEnd"

C15_Witness ==
    /\ pc = "resolved"
    /\ Len(Invoked) = 1
    /\ \E i \in Indices("RetryEnd") : events[i].call = 2 /\ events[i].data.success
    /\ \E i \in Indices("RetryStart") : events[i].call = 1

(* C17: the first event of a scenario is its only ScenarioStart, recorded  *)
(* before the body runs, and at most one ScenarioEnd is recorded.          *)
C17_ScenarioStartFirstOneScenarioEnd ==
    /\ pc # "testFn" => events # <<>>
    /\ events # <<>> => events[1].kind = "ScenarioStart"
    /\ Cardinality(Indices("ScenarioStart")) <= 1
    /\ Cardinality(Indices("ScenarioEnd")) <= 1

C17_Witness ==
    /\ pc = "rejected"
    /\ events[Len(events)].kind = "ScenarioEnd"
    /\ Indices("RetryStart") # {}
    /\ Len(Invoked) = 1

(* C18: every CommandResult directly follows the CommandRun of the same    *)
(* command, so a CommandRun has at most one CommandResult and no second    *)
(* CommandRun lies between the two.                                        *)
C18_CommandResultFollowsItsRun ==
    \A i \in Indices("CommandResult") :
        /\ i > 1
        /\ events[i - 1].kind = "CommandRun"
        /\ events[i - 1].call = events[i].call
        /\ events[i - 1].phase = events[i].phase

C18_Witness ==
    /\ pc = "cleanedUp"
    /\ Cardinality(Indices("CommandRun")) = 4
    /\ Cardinality(Indices("CommandResult")) = 4
    /\ \E i \in Indices("CommandResult") :
          events[i].phase = "forward" /\ events[i].data.exitCode = 1
    /\ \E i \in Indices("CommandResult") :
          events[i].phase = "revert" /\ events[i].data.exitCode = 1

(* testFn has finalized the scenario *)
Finalized == pc \in {"cleanedUp", "resolved", "rejected"}

(* cleanup is suppressed: the flag is set and the scenario body failed *)
CleanupSuppressed == preserveOnFailure /\ testErr # NoError

(* RevertingsStart and RevertingsEnd come after every event of a forward   *)
(* action, and every event of a revert action lies between them            *)
RevertingsAfterForwardActions ==
    \A i \in 1 .. Len(events) :
        /\ events[i].phase = "forward" =>
              \A j \in Indices("RevertingsStart") \cup Indices("RevertingsEnd") : i < j
        /\ events[i].phase = "revert" =>
              /\ \E j \in Indices("RevertingsStart") : j < i
              /\ \A j \in Indices("RevertingsStart") : j < i
              /\ \A j \in Indices("RevertingsEnd") : i < j
              /\ Finalized => Indices("RevertingsEnd") # {}

(* C16: RevertingsStart and RevertingsEnd occur after the ActionEnd of     *)
(* every forward action, with all revert actions between them; when        *)
(* cleanup is suppressed, the finalized scenario has recorded              *)
(* RevertingsSkipped and neither RevertingsStart nor RevertingsEnd.        *)
C16_RevertingsAfterActionsOrSkipped ==
    /\ RevertingsAfterForwardActions
    /\ (Finalized /\ CleanupSuppressed) =>
          /\ Indices("RevertingsSkipped") # {}
          /\ Indices("RevertingsStart") \cup Indices("RevertingsEnd") = {}

(* C19: the finalized scenario has skipped the cleanup exactly when the    *)
(* preserve-on-failure flag is set and the body failed: then the log holds *)
(* RevertingsSkipped, no RevertingsStart or RevertingsEnd, and no revert   *)
(* callback was invoked; in every other case revert() ran.                 *)
C19_SkipIffPreserveAndBodyFailed ==
    Finalized =>
        IF CleanupSuppressed
        THEN /\ Cardinality(Indices("RevertingsSkipped")) = 1
             /\ Indices("RevertingsStart") \cup Indices("RevertingsEnd") = {}
             /\ Invoked = <<>>
        ELSE /\ Indices("RevertingsSkipped") = {}
             /\ Cardinality(Indices("RevertingsStart")) = 1
             /\ Cardinality(Indices("RevertingsEnd")) = 1

Skipped == Indices("RevertingsSkipped")

(* C20: a step that records RevertingsSkipped, a call of skip(), appends   *)
(* that one event to the log and nothing else, and invokes no callback:    *)
(* the stack, the callback in hand and the cluster stay as they were.      *)
C20_SkipRecordsOneEventInvokesNothing ==
    [][Skipped' # Skipped =>
          /\ events' = Append(events, Event("RevertingsSkipped", <<>>, 0, "none"))
          /\ revertFns' = revertFns
          /\ revertFn' = revertFn
          /\ cluster' = cluster]_vars

C20_Witness ==
    /\ pc = "client"
    /\ events = <<Event("RevertingsSkipped", <<>>, 0, "none")>>
    /\ Len(revertFns) = 2
    /\ Invoked = <<>>

----------------------------------------------------------------------------
(* C21: the recorder returns every event that was recorded, in the order   *)
(* of the record() calls: a step either leaves the recorded events alone   *)
(* or appends one event behind them, so none is lost, reordered, modified  *)
(* or removed, and what getEvents() hands out is the whole sequence.       *)
C21_EventsKeptInRecordOrder ==
    [][/\ Len(events') \in {Len(events), Len(events) + 1}
       /\ SubSeq(events', 1, Len(events)) = events
       /\ \A i \in DOMAIN returned' :
             i > Len(returned) => ContentsIn(returned'[i], events') = events']_vars

C21_Witness ==
    /\ pc = "recorder"
    /\ Len(events) = MaxRecords
    /\ events[1].kind # events[2].kind
    /\ \E i \in DOMAIN returned : Len(returned[i].items) = 2

(* C22: the sequence getEvents() returned is a snapshot: events recorded   *)
(* after the call change neither its length nor its contents.              *)
C22_ReturnedSequenceIsSnapshot ==
    \A i \in DOMAIN returned :
        ContentsIn(returned[i], events) = returned[i].items

----------------------------------------------------------------------------
(* the kinds the annotations are said to record, and the kinds they do *)
DocumentedKinds ==
    [given |-> "BDDGiven", when |-> "BDDWhen", then |-> "BDDThen",
     and |-> "BDDAnd", but |-> "BDDBut"]

RecordedBddKinds ==
    [given |-> "BDDGiven", when |-> "BDDWhen", then |-> "BDDThen",
     and |-> "BDDAnd", but |-> "BDBut"]

(* the step is an annotation call that records one event of the kind that *)
(* kinds gives its keyword, with its description, and does nothing else   *)
AnnotationRecords(kinds) ==
    Len(bddCalls') > Len(bddCalls) =>
        LET b == bddCalls'[Len(bddCalls')]
            e == events'[Len(events')]
        IN /\ Len(events') = Len(events) + 1
           /\ SubSeq(events', 1, Len(events)) = events
           /\ e.kind = kinds[b.keyword]
           /\ e.data = [description |-> b.description]
           /\ UNCHANGED <<cluster, revertFns, revertFn, added, calls, callLog>>

(* C29 as stated: each annotation call given/when/then/and/but records     *)
(* exactly one event of kind BDDGiven, BDDWhen, BDDThen, BDDAnd, BDDBut    *)
(* with its description, issues no command and leaves the reverting stack *)
(* alone.                                                                  *)
C29_AnnotationRecordsDocumentedKind == [][AnnotationRecords(DocumentedKinds)]_vars

(* C29 amended: the same, where the kind that but records is BDBut. *)
C29_AnnotationRecordsItsKind == [][AnnotationRecords(RecordedBddKinds)]_vars

C29_Witness ==
    /\ revertFns # <<>>
    /\ \E i \in DOMAIN events :
          /\ events[i].kind = "BDBut"
          /\ events[i].data = [description |-> "d2"]
          /\ \E j \in 1 .. i - 1 : events[j].kind = "CommandResult"

----------------------------------------------------------------------------
(* the calls of assertApplyError so far *)
ExpectErrorCalls == {c \in DOMAIN callLog : callLog[c].type = "assertApplyError"}

IsCommand(i, kind, phase) ==
    /\ i \in DOMAIN events
    /\ events[i].kind = kind
    /\ events[i].phase = phase

(* the apply of an attempt of assertApplyError exited with 0 at event i *)
UnexpectedSuccess(i) ==
    /\ IsCommand(i, "CommandResult", "forward")
    /\ events[i].call \in ExpectErrorCalls
    /\ events[i].data.exitCode = 0
    /\ IsCommand(i - 1, "CommandRun", "forward")
    /\ events[i - 1].data.args[1] = "apply"

(* the attempt whose apply succeeded at event i ran the delete of the     *)
(* resource next and, unless it is still waiting for it, got its result   *)
RevertedInAttempt(i) ==
    /\ IsCommand(i + 1, "CommandRun", "forward")
    /\ events[i + 1].call = events[i].call
    /\ events[i + 1].data.args = <<"delete", callLog[events[i].call].input>>
    /\ \/ IsCommand(i + 2, "CommandResult", "forward")
       \/ pc = "fnRevert" /\ i + 1 = Len(events)

(* no command of the cleanup phase belongs to a call of assertApplyError *)
NothingDeferred ==
    \A i \in DOMAIN events :
        events[i].phase = "revert" /\ events[i].call \in ExpectErrorCalls
            => events[i].kind \in {"ActionStart", "ActionEnd"}

(* the exit codes of the deletes that attempts of assertApplyError ran *)
ImmediateReverts ==
    LET at == {i \in DOMAIN events : UnexpectedSuccess(i - 2)
                                       /\ IsCommand(i, "CommandResult", "forward")}
    IN SelectSeq([i \in DOMAIN events |->
                     IF i \in at THEN events[i].data.exitCode ELSE -1],
                 LAMBDA x : x # -1)

(* C23 as stated: whenever the apply of an attempt of assertApplyError     *)
(* unexpectedly succeeds, the resource is reverted within that attempt     *)
(* before the attempt raises: once the attempt is over the resource is not *)
(* in the cluster, and nothing is left to the cleanup phase.               *)
C23_UnexpectedResourceNeverLeftBehind ==
    /\ \A i \in DOMAIN events : UnexpectedSuccess(i) => RevertedInAttempt(i)
    /\ NothingDeferred
    /\ pc # "fnRevert" => Rejected1 \notin cluster

(* C23 amended: the attempt runs the delete of the resource and waits for  *)
(* it before it raises, and nothing is left to the cleanup phase; the      *)
(* resource is in the cluster afterwards only if the last such delete      *)
(* failed.                                                                 *)
C23_UnexpectedResourceRevertedInAttempt ==
    /\ \A i \in DOMAIN events : UnexpectedSuccess(i) => RevertedInAttempt(i)
    /\ NothingDeferred
    /\ pc # "fnRevert" /\ Rejected1 \in cluster
          => /\ ImmediateReverts # <<>>
             /\ ImmediateReverts[Len(ImmediateReverts)] = 1

C23_Witness ==
    /\ pc = "cleanedUp"
    /\ Len(ImmediateReverts) = 2
    /\ ImmediateReverts[2] = 0
    /\ \E c \in ExpectErrorCalls : callLog[c].status = "succeeded"

----------------------------------------------------------------------------
(* the calls of assertApplyError that returned: the apply failed and the  *)
(* test callback passed                                                    *)
ExpectedErrorCalls ==
    {c \in ExpectErrorCalls : callLog[c].status = "succeeded" /\ cur.call # c}

Registrations(c) == {i \in DOMAIN added : added[i] = c}

(* C24 as stated: a call of assertApplyError that succeeds on the          *)
(* expected-error path registers no revert: it adds nothing to the         *)
(* reverting stack and no revert action for it appears in the cleanup.     *)
C24_ExpectedErrorRegistersNoRevert ==
    \A c \in ExpectedErrorCalls :
        /\ Registrations(c) = {}
        /\ \A i \in DOMAIN events : events[i].phase = "revert" => events[i].call # c

(* C24 amended: such a call registers one revert, which does nothing: its  *)
(* revert action appears in the cleanup with ActionStart and ActionEnd     *)
(* and runs no command; a call that failed registers none.                 *)
C24_ExpectedErrorRegistersNoOpRevert ==
    /\ \A c \in ExpectedErrorCalls : Cardinality(Registrations(c)) = 1
    /\ \A c \in ExpectErrorCalls \ ExpectedErrorCalls : Registrations(c) = {}
    /\ NothingDeferred
    /\ \A i \in DOMAIN events :
          /\ events[i].kind = "ActionEnd"
          /\ events[i].phase = "revert"
          /\ events[i].call \in ExpectErrorCalls
          => /\ events[i].data.ok
             /\ events[i - 1].kind = "ActionStart"
             /\ events[i - 1].call = events[i].call

C24_Witness ==
    /\ pc = "cleanedUp"
    /\ cluster = {}
    /\ \E i, j \in DOMAIN events :
          /\ i < j
          /\ events[i].kind = "ActionEnd" /\ events[i].phase = "revert"
          /\ events[i].call \in ExpectedErrorCalls
          /\ events[j].kind = "CommandRun" /\ events[j].phase = "revert"

----------------------------------------------------------------------------
(* C25: an attempt of assertAbsence succeeds when kubectl get raises an    *)
(* error whose message contains "(NotFound)", fails when get returns a     *)
(* resource, and raises any other error of get unchanged.                  *)
C25_AbsenceAttemptOutcome ==
    [][Len(gets') > Len(gets) =>
         LET g == gets'[Len(gets')]
             before == callLog[g.call]
             after == callLog'[g.call]
         IN CASE g.got = GotResource ->
                   /\ after.failures = before.failures + 1
                   /\ after.last \notin GetErrors \cup {"resolved"}
              [] \E i \in DOMAIN Message(g.got) : Message(g.got)[i] = "(NotFound)" ->
                   /\ after.last = "resolved"
                   /\ after.status = "succeeded"
                   /\ after.failures = before.failures
                   /\ pc' = "settled" /\ raised' = NoError
              [] OTHER ->
                   /\ after.failures = before.failures + 1
                   /\ after.last = g.got
                   /\ pc' = "settled" => raised' = g.got]_vars

C25_Witness ==
    /\ pc = "settled"
    /\ raised = "ENoMatch"
    /\ Len(gets) = 3
    /\ gets[1].got = GotResource
    /\ gets[2].got = "ENotFound"
    /\ gets[2].call = gets[1].call
    /\ gets[3].got = "ENoMatch"

(* the calls that failed because of their input: the timeout option does  *)
(* not parse, or the manifest does not                                     *)
InvalidInputCalls ==
    {c \in DOMAIN callLog :
        \/ callLog[c].status = "failed" /\ callLog[c].failures = 0
        \/ callLog[c].last = InvalidResource}

(* C26: an action that fails because of invalid input is not retried: its *)
(* body is invoked at most once and no RetryStart is recorded for it.      *)
C26_InvalidInputNotRetried ==
    \A c \in InvalidInputCalls :
        /\ callLog[c].failures <= 1
        /\ Of("RetryStart", c) = {}
        /\ Of("RetryAttempt", c) = {}

----------------------------------------------------------------------------
(* the commands that the calls of newNamespace ran to make the namespace *)
NamespaceCommands ==
    {i \in DOMAIN events :
        /\ events[i].kind = "CommandRun"
        /\ events[i].phase = "forward"
        /\ callLog[events[i].call].type = "applyNamespace"}

(* C27: newNamespace makes the Namespace with kubectl create, never with   *)
(* apply, and a scenario never takes over, and later deletes, a namespace  *)
(* it did not create: a namespace that someone else created stays.         *)
C27_NamespaceCreatedNeverTakenOver ==
    /\ \A i \in NamespaceCommands : events[i].data.args[1] = "create"
    /\ \A i \in DOMAIN revertFns : revertFns[i].input \notin foreign
    /\ foreign \subseteq cluster

(* a namespace of others is gone after the cleanup of the scenario *)
ForeignNamespaceDeleted ==
    /\ pc = "resolved"
    /\ ~(foreign \subseteq cluster)

----------------------------------------------------------------------------
Carries(args, flag, value) ==
    \E k \in 1 .. Len(args) - 1 : args[k] = flag /\ args[k + 1] = value

(* the command carries the context and the kubeconfig of the cluster view *)
CarriesCluster(args, clusterView) ==
    /\ clusterView.ctx.context # Unset
          => Carries(args, "--context", clusterView.ctx.context)
    /\ clusterView.ctx.kubeconfig # Unset
          => Carries(args, "--kubeconfig", clusterView.ctx.kubeconfig)

CommandRuns == {i \in DOMAIN events : events[i].kind = "CommandRun"}

(* the views that newNamespace of a cluster view returned *)
NamespacedClusterViews ==
    {v \in DOMAIN kubectls :
        /\ kubectls[v].made = "newNamespace"
        /\ kubectls[kubectls[v].from].made = "useCluster"}

CreatedNamespace(v) == kubectls[v].ctx.namespace

(* C28 as stated: every command issued through a namespaced view made from *)
(* a cluster view carries the context and kubeconfig of the cluster and    *)
(* the created namespace, and the command that made the namespace carries  *)
(* the context and kubeconfig of the cluster.                              *)
C28_ViewCommandsCarryClusterAndNamespace ==
    \A i \in CommandRuns :
        LET v == events[i].call
            args == events[i].data.args
        IN /\ v \in NamespacedClusterViews
                 => /\ CarriesCluster(args, kubectls[kubectls[v].from])
                    /\ Carries(args, "-n", CreatedNamespace(v))
           /\ kubectls[v].made = "useCluster" /\ events[i].phase = "newNamespace"
                 => CarriesCluster(args, kubectls[v])

(* C28 amended: the same, where a command whose input names a namespace of *)
(* its own carries that namespace in place of the created one.             *)
C28_ViewCommandsCarryClusterAndOwnNamespace ==
    \A i \in CommandRuns :
        LET v == events[i].call
            args == events[i].data.args
        IN /\ v \in NamespacedClusterViews
                 => /\ CarriesCluster(args, kubectls[kubectls[v].from])
                    /\ IF events[i].phase = "override"
                       THEN /\ Carries(args, "-n", "other")
                            /\ ~Carries(args, "-n", CreatedNamespace(v))
                       ELSE Carries(args, "-n", CreatedNamespace(v))
           /\ kubectls[v].made = "useCluster" /\ events[i].phase = "newNamespace"
                 => CarriesCluster(args, kubectls[v])

C28_Witness ==
    \E i, j \in CommandRuns :
        /\ i < j
        /\ events[i].phase = "newNamespace"
        /\ kubectls[events[i].call].ctx.kubeconfig = "k1"
        /\ events[j].call \in NamespacedClusterViews
        /\ kubectls[events[j].call].from = events[i].call
        /\ events[j].phase = "view"

----------------------------------------------------------------------------
Started == {s \in ScenarioIds : scenarios[s].pc # "idle"}

----------------------------------------------------------------------------
(* Reading the report against the stream that was parsed *)

(* the actions of a report, by reference *)
ActionRefs(report) ==
    {ref \in [scenario : DOMAIN report, detail : 1 .. MaxEvents,
              action : 0 .. MaxEvents] :
        /\ ref.detail \in DOMAIN report[ref.scenario].details
        /\ LET item == report[ref.scenario].details[ref.detail]
           IN  IF ref.action = 0
               THEN item.type = "Action"
               ELSE /\ item.type = "BDDSection"
                    /\ ref.action \in DOMAIN item.actions}

(* the events that end the action in progress *)
ClosesAction(e) ==
    e.kind \in {"ActionStart", "ActionEnd", "ScenarioStart", "ScenarioEnd",
                "RevertingsStart", "RevertingsEnd"}

(* the events of the action that the event at `start` opened *)
SpanOf(start) ==
    {i \in start + 1 .. Len(consumed) :
        \A j \in start + 1 .. i : ~ClosesAction(consumed[j])}

AttemptsIn(span) == {i \in span : consumed[i].kind = "RetryAttempt"}

(* the CommandRun events of the last attempt of the action opened at start *)
LastAttemptCommands(start) ==
    LET span == SpanOf(start)
    IN  {i \in span : /\ consumed[i].kind = "CommandRun"
                      /\ \A j \in AttemptsIn(span) : j < i}

(* the recorder's streams open with ScenarioStart *)
OpensWithScenarioStart ==
    consumed # <<>> => consumed[1].kind = "ScenarioStart"

(* C31: the command list of a reported action holds exactly the commands   *)
(* that were recorded after the last RetryAttempt of the action (all of    *)
(* its commands if it was not retried), in the order of the stream, and    *)
(* none of an earlier attempt.                                              *)
C31_RetriedActionKeepsLastAttemptCommands ==
    OpensWithScenarioStart =>
        \A ref \in ActionRefs(state.report) :
            LET action == ActionAt(state.report, ref)
                kept == action.commands
            IN  /\ {kept[i].at : i \in DOMAIN kept} =
                       LastAttemptCommands(action.start)
                /\ \A i, j \in DOMAIN kept : i < j => kept[i].at < kept[j].at
                /\ \A i \in DOMAIN kept :
                       kept[i].cmd = consumed[kept[i].at].data.cmd

C31_Witness ==
    /\ OpensWithScenarioStart
    /\ \E ref \in ActionRefs(state.report) :
           LET action == ActionAt(state.report, ref)
               span == SpanOf(action.start)
           IN  /\ AttemptsIn(span) # {}
               /\ \E i \in span : /\ consumed[i].kind = "CommandRun"
                                  /\ \E j \in AttemptsIn(span) : i < j
               /\ Len(action.commands) = 1
               /\ action.commands[1].cmd = "c2"

(* the event that ended the action opened at `start`, 0 if none has *)
EndOf(start) ==
    LET after == {i \in start + 1 .. Len(consumed) : ClosesAction(consumed[i])}
    IN  IF after = {} THEN 0 ELSE CHOOSE i \in after : \A j \in after : i <= j

(* the reported actions that ended with a retry timeout that has a cause *)
TimedOutWithCause ==
    {ref \in ActionRefs(state.report) :
        LET end == EndOf(ActionAt(state.report, ref).start)
        IN  /\ end # 0
            /\ consumed[end].kind = "ActionEnd"
            /\ ~consumed[end].data.ok
            /\ UnwrapRetryTimeoutCauseMessage(consumed[end].data.error).given}

(* C32: an action whose ActionEnd error starts with "Timed out after " and *)
(* has a cause with a non-empty message is reported with the message and   *)
(* the stack of the cause.                                                  *)
C32_TimeoutErrorReportedAsItsCause ==
    OpensWithScenarioStart =>
        \A ref \in TimedOutWithCause :
            LET action == ActionAt(state.report, ref)
                error == consumed[EndOf(action.start)].data.error
            IN  /\ action.error.given
                /\ action.error.message.text = ToActionErrorModel(error).message
                /\ action.error.stack = ToActionErrorModel(error).stack

(* the apply-and-assert run is over and each of its three calls returned   *)
(* from the first invocation of its thunk                                   *)
FirstAttemptRun ==
    /\ pc \in {"resolved", "rejected"}
    /\ Len(callLog) = 3
    /\ \A i \in DOMAIN callLog :
           callLog[i].status = "succeeded" /\ callLog[i].failures = 0

Kinds(evs) == [i \in DOMAIN evs |-> evs[i].kind]

ApplyAndAssertKinds ==
    <<"ScenarioStart",
      "BDDGiven", "ActionStart", "CommandRun", "CommandResult", "ActionEnd",
      "BDDWhen", "ActionStart", "CommandRun", "CommandResult", "ActionEnd",
      "BDDThen", "ActionStart", "CommandRun", "CommandResult", "ActionEnd",
      "RevertingsStart",
      "ActionStart", "CommandRun", "CommandResult", "ActionEnd",
      "ActionStart", "CommandRun", "CommandResult", "ActionEnd",
      "RevertingsEnd">>

(* C33: the apply-and-assert scenario whose calls all succeed at once      *)
(* records exactly ScenarioStart, BDDGiven, the four events of the         *)
(* namespace's apply, BDDWhen, the four of the ConfigMap's apply, BDDThen, *)
(* the four of the assert (a get), RevertingsStart, the four events of     *)
(* "Delete ConfigMap" and of "Delete Namespace" (each a delete), and       *)
(* RevertingsEnd.                                                           *)
C33_ApplyAndAssertEventSequence ==
    FirstAttemptRun =>
        /\ Kinds(events) = ApplyAndAssertKinds
        /\ \A i \in DOMAIN events :
               /\ events[i].kind = "ActionStart" /\ events[i].phase = "revert"
                      => events[i].data.description[1] = "Delete"
               /\ events[i].kind = "ActionEnd" /\ events[i].phase = "forward"
                      => events[i].data.ok
               /\ events[i].kind = "CommandRun" /\ events[i].phase = "revert"
                      => events[i].data.args[1] = "delete"

----------------------------------------------------------------------------
(* Reading a round trip *)

RoundTripDone == roundTrip.at = "parsed"

(* C34: parsing the string rendered from a Duration of any non-negative    *)
(* integer count of milliseconds gives that count back.                    *)
C34_ParseOfRenderIsIdentity ==
    RoundTripDone => roundTrip.parsed.ok /\ roundTrip.parsed.ms = roundTrip.d

(* C34, amended: the count comes back when it is at most                   *)
(* Number.MAX_SAFE_INTEGER; for a larger count parseDuration throws.       *)
C34_ParseOfRenderIsIdentityOnSafeIntegers ==
    RoundTripDone =>
        IF AtMost(roundTrip.d, MaxSafeInteger)
        THEN roundTrip.parsed.ok /\ roundTrip.parsed.ms = roundTrip.d
        ELSE ~roundTrip.parsed.ok

C34_Witness ==
    /\ RoundTripDone
    /\ roundTrip.d = Digits(MsPerH + MsPerM + 50)
    /\ roundTrip.text = <<"1", "h", "1", "m", "0", ".", "0", "5", "s">>
    /\ roundTrip.parsed.ok

----------------------------------------------------------------------------
(* Reading the loop of retryUntil *)

(* retryUntil is running: a thunk invocation or a sleep is pending *)
InRetryUntil == pc \in {"fn", "sleep"}

(* the step starts a further thunk invocation *)
StartsRetry == InRetryUntil /\ pc' = "fn" /\ retries' = retries + 1

(* C35: a further thunk invocation starts only when the time is strictly   *)
(* before the deadline and after a sleep of at least min(interval, time    *)
(* remaining), and when every thunk invocation completes the call of       *)
(* retryUntil ends.                                                         *)
C35_RetriesStartBeforeDeadlineAndEnd ==
    /\ [][StartsRetry =>
             /\ now' < timeoutMs
             /\ now' >= now + Min(intervalMs, Max(0, timeoutMs - now))]_vars
    /\ (InRetryUntil ~> pc = "settled")

C35_Witness ==
    /\ pc = "fn"
    /\ retries = 1
    /\ now = 1
    /\ timeoutMs = 2
    /\ intervalMs = 1

----------------------------------------------------------------------------
(* Reading the drains of a reverting object *)

IsRevertInvocation(e) == e.kind = "ActionStart" /\ e.phase = "revert"

(* the callbacks invoked by all revert() calls so far, in order *)
RevertInvocations == SelectSeq(events, IsRevertInvocation)

(* the outcomes of the callbacks that have settled, in order *)
RevertOutcomes == SelectSeq(events, IsRevertEnd)

(* C36: over all the revert() calls made on a reverting object, the        *)
(* callbacks are invoked from the last registered downwards; the callback  *)
(* invoked after one that failed is that same callback (the next revert()  *)
(* call starts with it), the one invoked after one that succeeded is the   *)
(* one registered just before it, so none that succeeded runs again.       *)
C36_LaterRevertResumesDrain ==
    /\ Len(RevertInvocations) > 0 => RevertInvocations[1].call = Len(added)
    /\ \A i \in 1 .. Len(RevertInvocations) - 1 :
           /\ i \in DOMAIN RevertOutcomes
           /\ RevertOutcomes[i].call = RevertInvocations[i].call
           /\ RevertInvocations[i + 1].call =
                  IF RevertOutcomes[i].data.ok
                  THEN RevertInvocations[i].call - 1
                  ELSE RevertInvocations[i].call
    /\ \A i \in DOMAIN RevertOutcomes :
           \A j \in i + 1 .. Len(RevertInvocations) :
               RevertOutcomes[i].data.ok
                   => RevertInvocations[j].call # RevertOutcomes[i].call

C36_Witness ==
    /\ Len(SelectSeq(events, LAMBDA e : e.kind = "RevertingsStart")) = 2
    /\ [i \in DOMAIN RevertInvocations |-> RevertInvocations[i].call]
           = <<2, 2, 1>>
    /\ Len(RevertOutcomes) = 3
    /\ ~RevertOutcomes[1].data.ok
    /\ RevertOutcomes[3].data.ok
    /\ revertFns = <<>>

----------------------------------------------------------------------------
(* The end of a scenario run *)

(* the promise of testFn has settled *)
RunEnded == pc \in {"resolved", "rejected"}

(* report() printed the markdown report: testFn reaches it only when     *)
(* cleanup() returned, and it renders the report when testErr is set      *)
FailureReportProduced == RunEnded /\ raised = NoError /\ testErr # NoError

(* C37: a run that has ended has ScenarioEnd as the last event of its    *)
(* stream, also when a revert callback failed during cleanup.            *)
C37_ScenarioEndIsLastEvent ==
    RunEnded => /\ Len(events) > 0
                /\ events[Len(events)].kind = "ScenarioEnd"

(* C38: when the body raised, the run rejects with the body's error and  *)
(* the failure report is produced, also when the cleanup failed as well. *)
C38_BodyErrorNeverHiddenByCleanup ==
    (RunEnded /\ testErr # NoError)
        => (thrown = testErr /\ FailureReportProduced)

----------------------------------------------------------------------------
(* The status of an action in the rendered report *)

(* the stream of a body that awaits each action before it calls the next: *)
(* ActionStart and ActionEnd alternate, ActionStart first                  *)
ActionsInTurn ==
    LET marks == SelectSeq(consumed,
                     LAMBDA e : e.kind \in {"ActionStart", "ActionEnd"})
    IN  \A i \in DOMAIN marks :
            marks[i].kind = IF i % 2 = 1 THEN "ActionStart" ELSE "ActionEnd"

(* C39: every action of Scenario Details is rendered with the status of *)
(* the overview item made by its own ActionStart, also when two actions *)
(* of the scenario have the same description.                           *)
C39_ActionShownWithOwnOverviewStatus ==
    (OpensWithScenarioStart /\ ActionsInTurn) =>
        \A ref \in ActionRefs(state.report) :
            LET scenario == state.report[ref.scenario]
                action == ActionAt(state.report, ref)
            IN  action.item \in DOMAIN scenario.overview
                    => RenderAction(scenario, action)
                           = scenario.overview[action.item].status

----------------------------------------------------------------------------
(* Scenarios that follow one another in one stream *)

(* the current slots of the parser are all empty *)
ProgressCleared(st) ==
    /\ st.currentBDDSection = NoSection
    /\ ~st.inCleanup
    /\ st.currentAction = NoAction
    /\ st.currentOverviewIndex = NoIndex
    /\ st.currentCleanup = NoCleanup

(* C40: handling ScenarioStart or ScenarioEnd leaves every current slot  *)
(* empty, and an ActionStart that follows a ScenarioStart adds one       *)
(* pending overview item and one top-level action to the scenario just   *)
(* opened and changes nothing in the scenarios before it, whatever       *)
(* phase or section the stream was in when the scenario was opened.      *)
C40_NoLeakBetweenScenarios ==
    [][consumed' # consumed =>
         LET e == consumed'[Len(consumed')]
             s == Len(state.report)
         IN  /\ e.kind \in {"ScenarioStart", "ScenarioEnd"}
                    => ProgressCleared(state')
             /\ (/\ consumed # <<>>
                 /\ consumed[Len(consumed)].kind = "ScenarioStart"
                 /\ e.kind = "ActionStart")
                    => /\ state.currentScenario = s
                       /\ Len(state'.report) = s
                       /\ \A i \in 1 .. s - 1 :
                              state'.report[i] = state.report[i]
                       /\ state'.report[s] =
                              [state.report[s] EXCEPT
                                  !.overview =
                                      <<[name |-> e.data.description,
                                         status |-> "pending"]>>,
                                  !.details =
                                      <<Tagged(NewAction(e.data.description,
                                                Len(consumed'), 1))>>]]_vars

(* a scenario opened inside the cleanup phase of the one before, and its *)
(* first action                                                          *)
C40_Witness ==
    /\ Kinds(consumed) = <<"ScenarioStart", "RevertingsStart", "ActionStart",
                           "ScenarioStart", "ActionStart">>
    /\ Len(state.report) = 2
    /\ Len(state.report[1].cleanup) = 1
    /\ state.report[2].cleanup = <<>>
    /\ Len(state.report[2].details) = 1
    /\ state.currentAction = [scenario |-> 2, detail |-> 1, action |-> 0]

====
